---- MODULE Spec2Model ----
(***************************************************************************)
(* PDF drawing comparison: element matcher, difference detector,          *)
(* comparison engine and tolerance configuration.                          *)
(*                                                                         *)
(* Numbers are fixed point.  Lengths and coordinates are micrometres      *)
(* (1/1000 mm), angles are 1/10000 rad, ratios and similarities are       *)
(* thousandths, so the float 0.999 of the source is the integer 999.      *)
(* Divisions truncate.  Element objects are referred to by identity: a    *)
(* list holds object ids, and two ids may denote value-equal elements.    *)
(***************************************************************************)
EXTENDS Integers, Sequences, FiniteSets, TLC

VARIABLES
    elements_a,      \* detect_differences: list A (object ids)
    elements_b,      \* detect_differences: list B (object ids)
    tolerance,       \* the ToleranceConfig of the matcher and the detector
    pc,              \* position inside detect_differences
    loop_i,          \* match_elements: index of the next element of A
    matches,         \* match_elements: list of MatchResult
    matched_b_ids,   \* match_elements: set of consumed indices of B
    differences,     \* detect_differences: list of DifferenceDetail
    statistics,      \* detect_differences: DifferenceStatistics, or NoValue
    stage,           \* whose match_elements runs: the engine's or the detector's
    epc,             \* position inside the comparison engine
    api,             \* the engine method that was called
    enable_caching,  \* ComparisonConfig.enable_caching
    output_dir,      \* batch_compare: TRUE iff an output directory was given
    file_pairs,      \* the file pairs of the call
    batch_i,         \* batch_compare: index of the pair being compared
    results,         \* the ComparisonResults returned so far
    saved,           \* comparison ids written by _save_result
    matching_statistics,    \* compare_files: MatchingStatistics of the engine's matcher
    parsing_cache,          \* PDFComparisonEngine._parsing_cache (its keys)
    comparison_cache,       \* PDFComparisonEngine._comparison_cache
    total_comparisons,      \* PDFComparisonEngine.total_comparisons
    successful_comparisons, \* PDFComparisonEngine.successful_comparisons
    failed_comparisons,     \* PDFComparisonEngine.failed_comparisons
    config,                 \* the ToleranceConfig constructed last
    config_status,          \* how the last construction ended
    calculator,             \* the SimilarityCalculator: tolerance, method, _similarity_cache
    heap,                   \* the element object that lives at each address (its id())
    processing_time,        \* DifferenceStatistics.processing_time of the last run
    previous_run,           \* what the previous detect_differences on the same
                            \* lists returned, if it was called before
    spatial_index,          \* a SpatialIndex: idx (the R-tree), elements, next_id, type_index
    call                    \* the last call of a component: its arguments (the
                            \* variants and addresses of the elements) and outcome

\* The variables of detect_differences and match_elements
detector_vars == <<elements_a, elements_b, tolerance, pc, loop_i, matches,
                   matched_b_ids, differences, statistics, stage>>

\* The variables of the comparison engine
engine_vars == <<epc, api, enable_caching, output_dir, file_pairs, batch_i,
                 results, saved, matching_statistics, parsing_cache,
                 comparison_cache, total_comparisons, successful_comparisons,
                 failed_comparisons>>

\* The variables of the construction of tolerance configurations
config_vars == <<config, config_status>>

\* The variables of the components that are used on their own
component_vars == <<calculator, heap, call, spatial_index>>

\* The measured time of detect_differences and the result of an earlier run
run_vars == <<processing_time, previous_run>>

\* The variables of the comparison pipeline
pipeline_vars == <<detector_vars, engine_vars, config_vars, run_vars>>

vars == <<pipeline_vars, component_vars>>

----------------------------------------------------------------------------
(* Bounds of the model *)

MaxLen ==
    2

\* None where a statistics record is expected
NoValue == "None"

\* None where an element is expected (object ids start at 1)
NoElement ==
    0

\* Optional[MatchResult]: the empty tuple is None, <<m>> is the result m
NoMatch == <<>>

----------------------------------------------------------------------------
(* Fixed-point arithmetic *)

SimOne ==
    1000

Pi ==
    31416

TwoPi == 2 * Pi

Abs(x) == IF x < 0 THEN -x ELSE x

Min2(x, y) == IF x <= y THEN x ELSE y

Max2(x, y) == IF x >= y THEN x ELSE y

RECURSIVE IsqrtSearch(_, _, _)
IsqrtSearch(n, lo, hi) ==
    IF lo >= hi THEN lo
    ELSE LET mid == (lo + hi + 1) \div 2
         IN  IF mid * mid <= n THEN IsqrtSearch(n, mid, hi)
             ELSE IsqrtSearch(n, lo, mid - 1)

\* math.sqrt, truncated to a whole micrometre
Isqrt(n) == IsqrtSearch(n, 0, Min2(n, 46340))

\* max(0.0, 1.0 - delta / tol) for tol > 0
Falloff(delta, tol) ==
    IF delta >= tol THEN 0 ELSE (SimOne * (tol - delta)) \div tol

----------------------------------------------------------------------------
(* Geometry model *)

Point(x, y) == [x |-> x, y |-> y]

\* Point.distance_to; the root of a single square is taken directly
distance_to(p, q) ==
    IF p.x = q.x THEN Abs(p.y - q.y)
    ELSE IF p.y = q.y THEN Abs(p.x - q.x)
    ELSE Isqrt((p.x - q.x) * (p.x - q.x) + (p.y - q.y) * (p.y - q.y))

Line(start, end, color) ==
    [type |-> "Line", start |-> start, end |-> end,
     layer |-> "", color |-> color, line_type |-> "solid"]

Circle(center, radius, color) ==
    [type |-> "Circle", center |-> center, radius |-> radius,
     layer |-> "", color |-> color]

Arc(center, radius, start_angle, end_angle, color) ==
    [type |-> "Arc", center |-> center, radius |-> radius,
     start_angle |-> start_angle, end_angle |-> end_angle,
     layer |-> "", color |-> color]

Text(position, content, height, font) ==
    [type |-> "Text", position |-> position, content |-> content,
     height |-> height, rotation |-> 0,
     layer |-> "", color |-> "black", font |-> font]

\* Line.length
LineLength(e) == distance_to(e.start, e.end)

\* Line.angle = math.atan2(dy, dx); the lines of the model are parallel to
\* an axis or diagonal, where atan2 is a multiple of pi/4
Atan2(dy, dx) ==
    IF dy = 0 THEN (IF dx >= 0 THEN 0 ELSE Pi)
    ELSE IF dx = 0 THEN (IF dy > 0 THEN Pi \div 2 ELSE -(Pi \div 2))
    ELSE IF dx > 0 THEN (IF dy > 0 THEN Pi \div 4 ELSE -(Pi \div 4))
    ELSE (IF dy > 0 THEN (3 * Pi) \div 4 ELSE -((3 * Pi) \div 4))

LineAngle(e) == Atan2(e.end.y - e.start.y, e.end.x - e.start.x)

\* Arc.arc_length
ArcLength(e) ==
    LET d == e.end_angle - e.start_angle
        angle_diff == IF d < 0 THEN d + TwoPi ELSE d
    IN  (e.radius * angle_diff) \div 10000

\* Text.width_estimate = len(content) * height * 0.6
WidthEstimate(e) == (Len(e.content) * e.height * 6) \div 10

\* The element objects of the model.  Objects 1 and 2 are two distinct
\* objects of equal value, and
\* so are 3 and 5, and 4 and 6.  Object 7 is a circle whose box meets that
\* of object 1 and whose similarity to it is 0; 8 and 9 are the texts "ABC"
\* and "ABD" at one position, 10 is the text of 8 with a larger height, 11
\* is the line of 4 in red.
Elem(o) ==
    CASE o = 1 -> Circle(Point(5000, 5000), 3000, "black")
      [] o = 2 -> Circle(Point(5000, 5000), 3000, "black")
      [] o = 3 -> Circle(Point(5020, 4980), 3010, "black")
      [] o = 4 -> Line(Point(0, 0), Point(10000, 0), "black")
      [] o = 5 -> Circle(Point(5020, 4980), 3010, "black")
      [] o = 6 -> Line(Point(0, 0), Point(10000, 0), "black")
      [] o = 7 -> Circle(Point(8000, 5000), 1000, "black")
      [] o = 8 -> Text(Point(1000, 1000), <<"A", "B", "C">>, 3000, "Arial")
      [] o = 9 -> Text(Point(1000, 1000), <<"A", "B", "D">>, 3000, "Arial")
      [] o = 10 -> Text(Point(1000, 1000), <<"A", "B", "C">>, 3500, "Arial")
      [] o = 11 -> Line(Point(0, 0), Point(10000, 0), "red")

\* The objects the lists of detect_differences are drawn from
Pool == 1..4

TypeOf(o) == Elem(o).type

RECURSIVE SeqsUpTo(_, _)
SeqsUpTo(S, n) ==
    IF n = 0 THEN {<<>>}
    ELSE LET shorter == SeqsUpTo(S, n - 1)
         IN  shorter \cup {Append(s, x) : s \in {t \in shorter : Len(t) = n - 1}, x \in S}

----------------------------------------------------------------------------
(* Tolerance configuration *)

\* ToleranceConfig._validate_parameters: TRUE iff no ValueError is raised
ValidateParameters(c) ==
    /\ ~(c.position < 0)
    /\ (0 <= c.length_ratio /\ c.length_ratio <= 1000)
    /\ ~(c.angle < 0)
    /\ (0 <= c.similarity_threshold /\ c.similarity_threshold <= 1000)
    /\ ~(c.max_search_radius < c.position)

\* ToleranceConfig.high_precision
HighPrecision ==
    [position |-> 50, length_ratio |-> 5, angle |-> 90,
     similarity_threshold |-> 950, text_position |-> 500,
     text_content_similarity |-> 950, radius_tolerance |-> 50,
     arc_angle_tolerance |-> 170, enable_fuzzy_matching |-> TRUE,
     max_search_radius |-> 2000, max_candidates_per_element |-> 20,
     enable_early_termination |-> TRUE]

\* ToleranceConfig.standard
Standard ==
    [position |-> 100, length_ratio |-> 10, angle |-> 170,
     similarity_threshold |-> 850, text_position |-> 1000,
     text_content_similarity |-> 900, radius_tolerance |-> 100,
     arc_angle_tolerance |-> 350, enable_fuzzy_matching |-> TRUE,
     max_search_radius |-> 5000, max_candidates_per_element |-> 30,
     enable_early_termination |-> TRUE]

\* ToleranceConfig.relaxed
Relaxed ==
    [position |-> 500, length_ratio |-> 50, angle |-> 870,
     similarity_threshold |-> 700, text_position |-> 2000,
     text_content_similarity |-> 800, radius_tolerance |-> 500,
     arc_angle_tolerance |-> 1750, enable_fuzzy_matching |-> TRUE,
     max_search_radius |-> 10000, max_candidates_per_element |-> 50,
     enable_early_termination |-> TRUE]

\* ToleranceConfig.ultra_precise
UltraPrecise ==
    [position |-> 10, length_ratio |-> 1, angle |-> 35,
     similarity_threshold |-> 980, text_position |-> 100,
     text_content_similarity |-> 980, radius_tolerance |-> 10,
     arc_angle_tolerance |-> 87, enable_fuzzy_matching |-> TRUE,
     max_search_radius |-> 500, max_candidates_per_element |-> 10,
     enable_early_termination |-> TRUE]

Presets == {UltraPrecise, HighPrecision, Standard, Relaxed}

\* ToleranceConfig.custom(position=0): accepted by the validation
ZeroPosition == [Standard EXCEPT !.position = 0]

\* The configurations a matcher is run with
RunTolerances == Presets \cup {ZeroPosition}

\* ToleranceConfig.custom(similarity_threshold=0.0,
\* max_candidates_per_element=1): accepted by the validation
ZeroThreshold ==
    [Standard EXCEPT !.similarity_threshold = 0, !.max_candidates_per_element = 1]

\* ToleranceConfig.custom(radius_tolerance=0.0): accepted by the validation
ZeroRadiusTolerance == [Standard EXCEPT !.radius_tolerance = 0]

\* The configurations of the scenarios
ScenarioTolerances == {Standard, ZeroThreshold, ZeroRadiusTolerance}

\* The objects of the scenarios, by variant: matching never pairs two
\* variants
ScenarioPools == {{1, 3, 7}, {8, 9, 10}, {4, 6, 11}}

----------------------------------------------------------------------------
(* Spatial index queries used by the matcher *)

\* SpatialIndex._get_bbox: <<xmin, ymin, xmax, ymax>>
GetBbox(e) ==
    CASE e.type = "Line" ->
            <<Min2(e.start.x, e.end.x), Min2(e.start.y, e.end.y),
              Max2(e.start.x, e.end.x), Max2(e.start.y, e.end.y)>>
      [] e.type \in {"Circle", "Arc"} ->
            <<e.center.x - e.radius, e.center.y - e.radius,
              e.center.x + e.radius, e.center.y + e.radius>>
      [] e.type = "Text" ->
            <<e.position.x, e.position.y,
              e.position.x + WidthEstimate(e), e.position.y + e.height>>

\* rtree intersection test of two boxes (closed intervals)
BoxesIntersect(p, q) ==
    /\ p[1] <= q[3] /\ q[1] <= p[3]
    /\ p[2] <= q[4] /\ q[2] <= p[4]

\* SpatialIndex.query_nearby over the index built from list B: the ids
\* (positions of B) whose box meets the box of `a` grown by `radius`
QueryNearby(B, a, radius) ==
    LET bb == GetBbox(Elem(a))
        expanded == <<bb[1] - radius, bb[2] - radius, bb[3] + radius, bb[4] + radius>>
    IN  {k \in 1..Len(B) : BoxesIntersect(expanded, GetBbox(Elem(B[k])))}

\* The orders in which the R-tree may return a set of ids
RECURSIVE Orders(_)
Orders(S) ==
    IF S = {} THEN {<<>>}
    ELSE UNION {{<<x>> \o q : q \in Orders(S \ {x})} : x \in S}

----------------------------------------------------------------------------
(* Element matcher: similarity *)

\* ElementMatcher._get_element_center
GetElementCenter(e) ==
    CASE e.type = "Line" ->
            Point((e.start.x + e.end.x) \div 2, (e.start.y + e.end.y) \div 2)
      [] e.type \in {"Circle", "Arc"} -> e.center
      [] e.type = "Text" -> e.position

\* ElementMatcher._calculate_position_similarity
PositionSimilarity(pa, pb, tol) == Falloff(distance_to(pa, pb), tol.position)

\* ElementMatcher._calculate_length_similarity
LengthSimilarity(length_a, length_b, tol) ==
    IF length_a = 0 /\ length_b = 0 THEN SimOne
    ELSE LET max_length == Max2(length_a, length_b)
         IN  IF max_length = 0 THEN SimOne
             ELSE Falloff(Abs(length_a - length_b) * 1000, max_length * tol.length_ratio)

\* ElementMatcher._calculate_angle_similarity
AngleSimilarity(angle_a, angle_b, tol) ==
    LET d == Abs(angle_a - angle_b)
    IN  Falloff(Min2(d, TwoPi - d), tol.angle)

\* ElementMatcher._calculate_endpoint_similarity
EndpointSimilarity(la, lb, tol) ==
    LET sim1 == (PositionSimilarity(la.start, lb.start, tol)
                 + PositionSimilarity(la.end, lb.end, tol)) \div 2
        sim2 == (PositionSimilarity(la.start, lb.end, tol)
                 + PositionSimilarity(la.end, lb.start, tol)) \div 2
    IN  Max2(sim1, sim2)

\* ElementMatcher._calculate_line_similarity
LineSimilarity(la, lb, tol) ==
    (PositionSimilarity(GetElementCenter(la), GetElementCenter(lb), tol)
     + LengthSimilarity(LineLength(la), LineLength(lb), tol)
     + AngleSimilarity(LineAngle(la), LineAngle(lb), tol)
     + EndpointSimilarity(la, lb, tol)) \div 4

\* ElementMatcher._calculate_circle_similarity
CircleSimilarity(ca, cb, tol) ==
    (PositionSimilarity(ca.center, cb.center, tol)
     + Falloff(Abs(ca.radius - cb.radius), tol.radius_tolerance)) \div 2

\* ElementMatcher._calculate_arc_angle_similarity
ArcAngleSimilarity(aa, ab, tol) ==
    (LengthSimilarity(ArcLength(aa), ArcLength(ab), tol)
     + AngleSimilarity(aa.start_angle, ab.start_angle, tol)
     + AngleSimilarity(aa.end_angle, ab.end_angle, tol)) \div 3

\* ElementMatcher._calculate_arc_similarity
ArcSimilarity(aa, ab, tol) ==
    (4 * PositionSimilarity(aa.center, ab.center, tol)
     + 3 * Falloff(Abs(aa.radius - ab.radius), tol.radius_tolerance)
     + 3 * ArcAngleSimilarity(aa, ab, tol)) \div 10

\* str.lower on the characters of the model
Lower(c) ==
    CASE c = "A" -> "a" [] c = "B" -> "b" [] c = "C" -> "c" [] c = "D" -> "d"
      [] OTHER -> c

RECURSIVE StripLeft(_)
StripLeft(s) == IF s # <<>> /\ Head(s) = " " THEN StripLeft(Tail(s)) ELSE s

RECURSIVE StripRight(_)
StripRight(s) ==
    IF s # <<>> /\ s[Len(s)] = " " THEN StripRight(SubSeq(s, 1, Len(s) - 1)) ELSE s

\* str.strip().lower()
StripLower(s) == LET t == StripRight(StripLeft(s)) IN [k \in 1..Len(t) |-> Lower(t[k])]

\* ElementMatcher._calculate_text_content_similarity
TextContentSimilarity(content_a, content_b) ==
    IF content_a = content_b THEN SimOne
    ELSE IF content_a = <<>> \/ content_b = <<>> THEN 0
    ELSE LET ca == StripLower(content_a)
             cb == StripLower(content_b)
             set_a == {ca[k] : k \in 1..Len(ca)}
             set_b == {cb[k] : k \in 1..Len(cb)}
             union == Cardinality(set_a \cup set_b)
         IN  IF ca = cb THEN SimOne
             ELSE IF union = 0 THEN 0
             ELSE (SimOne * Cardinality(set_a \cap set_b)) \div union

\* ElementMatcher._calculate_text_similarity
TextSimilarity(ta, tb, tol) ==
    (3 * PositionSimilarity(ta.position, tb.position, tol)
     + 5 * TextContentSimilarity(ta.content, tb.content)
     + 2 * Falloff(Abs(ta.height - tb.height) * 5, ta.height)) \div 10

\* ElementMatcher._calculate_similarity
CalculateSimilarity(ea, eb, tol) ==
    IF ea.type # eb.type THEN 0
    ELSE CASE ea.type = "Line" -> LineSimilarity(ea, eb, tol)
           [] ea.type = "Circle" -> CircleSimilarity(ea, eb, tol)
           [] ea.type = "Arc" -> ArcSimilarity(ea, eb, tol)
           [] ea.type = "Text" -> TextSimilarity(ea, eb, tol)

\* The divisions of _calculate_similarity: TRUE iff one of them divides by
\* zero for this pair (Python raises ZeroDivisionError)
SimilarityRaises(ea, eb, tol) ==
    /\ ea.type = eb.type
    /\ \/ tol.position = 0
       \/ /\ ea.type = "Line"
          /\ \/ tol.angle = 0
             \/ tol.length_ratio = 0 /\ Max2(LineLength(ea), LineLength(eb)) # 0
       \/ ea.type \in {"Circle", "Arc"} /\ tol.radius_tolerance = 0
       \/ /\ ea.type = "Arc"
          /\ \/ tol.angle = 0
             \/ tol.length_ratio = 0 /\ Max2(ArcLength(ea), ArcLength(eb)) # 0
       \/ ea.type = "Text" /\ ea.height = 0

----------------------------------------------------------------------------
(* Element matcher: candidates and best match *)

\* First index j of list L with L[j] the object o (`is`) and j not in
\* `excluded`; 0 when there is none
RECURSIVE FirstIndexFrom(_, _, _, _)
FirstIndexFrom(L, o, excluded, j) ==
    IF j > Len(L) THEN 0
    ELSE IF L[j] = o /\ j \notin excluded THEN j
    ELSE FirstIndexFrom(L, o, excluded, j + 1)

FirstIndex(L, o, excluded) == FirstIndexFrom(L, o, excluded, 1)

\* _get_candidates, step 2: keep the elements of the type of `a`, each with
\* the first not yet matched index of B that holds that object
RECURSIVE TypeFiltered(_, _, _, _)
TypeFiltered(nearby, a, B, matched) ==
    IF nearby = <<>> THEN <<>>
    ELSE LET elem == B[Head(nearby)]
             j == FirstIndex(B, elem, matched)
             rest == TypeFiltered(Tail(nearby), a, B, matched)
         IN  IF TypeOf(elem) = TypeOf(a) /\ j # 0
             THEN <<[idx |-> j, elem |-> elem]>> \o rest
             ELSE rest

CenterDistance(a, c) ==
    distance_to(GetElementCenter(Elem(c.elem)), GetElementCenter(Elem(a)))

\* list.sort(key = distance to the centre of a): stable insertion
RECURSIVE InsertByDistance(_, _, _)
InsertByDistance(sorted, c, a) ==
    IF sorted = <<>> THEN <<c>>
    ELSE IF CenterDistance(a, c) < CenterDistance(a, Head(sorted))
         THEN <<c>> \o sorted
         ELSE <<Head(sorted)>> \o InsertByDistance(Tail(sorted), c, a)

RECURSIVE SortByDistance(_, _)
SortByDistance(cs, a) ==
    IF cs = <<>> THEN <<>>
    ELSE InsertByDistance(SortByDistance(SubSeq(cs, 1, Len(cs) - 1), a), cs[Len(cs)], a)

\* ElementMatcher._get_candidates; `nearby` is the R-tree's answer, in the
\* order the R-tree returned it
GetCandidates(nearby, a, B, matched, tol) ==
    LET type_filtered == TypeFiltered(nearby, a, B, matched)
    IN  IF Len(type_filtered) > tol.max_candidates_per_element
        THEN SubSeq(SortByDistance(type_filtered, a), 1, tol.max_candidates_per_element)
        ELSE type_filtered

\* A classification whose 'similar' band starts at 0.9
DetermineMatchType_SimilarFrom900(similarity, tol) ==
    IF similarity >= 950 THEN "exact"
    ELSE IF similarity >= 900 THEN "similar"
    ELSE IF similarity >= tol.similarity_threshold THEN "partial"
    ELSE "no_match"

\* ElementMatcher._determine_match_type
DetermineMatchType(similarity, tol) ==
    IF similarity >= 950 THEN "exact"
    ELSE IF similarity >= 800 THEN "similar"
    ELSE IF similarity >= tol.similarity_threshold THEN "partial"
    ELSE "no_match"

\* ElementMatcher._calculate_element_complexity, times 0.1, in thousandths
ElementComplexity(e) ==
    CASE e.type = "Line" -> 100
      [] e.type = "Circle" -> 120
      [] e.type = "Arc" -> 150
      [] e.type = "Text" -> 130 + Len(e.content)

\* ElementMatcher._calculate_confidence
CalculateConfidence(e, similarity) ==
    Min2(SimOne, (similarity * (SimOne + ElementComplexity(e))) \div SimOne)

\* The MatchResult built in _find_best_match
MatchResult(a, b, similarity, tol) ==
    [element_a |-> a, element_b |-> b, similarity |-> similarity,
     match_type |-> DetermineMatchType(similarity, tol),
     confidence |-> CalculateConfidence(Elem(a), similarity),
     geometric_distance |->
         distance_to(GetElementCenter(Elem(a)), GetElementCenter(Elem(b)))]

\* A threshold test that accepts every similarity
MeetsThreshold_Any(similarity, tol) == similarity >= 0

\* The threshold test `similarity >= self.tolerance.similarity_threshold`,
\* made in _find_best_match and again in match_elements
MeetsThreshold(similarity, tol) == similarity >= tol.similarity_threshold

\* The acceptance test of the loop of _find_best_match
BetterCandidate(similarity, best_similarity, tol) ==
    similarity > best_similarity /\ MeetsThreshold(similarity, tol)

\* ElementMatcher._find_best_match, the loop over the candidates
RECURSIVE BestOf(_, _, _, _, _, _)
BestOf(cands, a, matched, tol, best_match, best_similarity) ==
    IF cands = <<>> THEN best_match
    ELSE LET c == Head(cands)
             similarity == CalculateSimilarity(Elem(a), Elem(c.elem), tol)
         IN  IF c.idx \in matched
             THEN BestOf(Tail(cands), a, matched, tol, best_match, best_similarity)
             ELSE IF BetterCandidate(similarity, best_similarity, tol)
             THEN BestOf(Tail(cands), a, matched, tol,
                         <<MatchResult(a, c.elem, similarity, tol)>>, similarity)
             ELSE BestOf(Tail(cands), a, matched, tol, best_match, best_similarity)

\* ElementMatcher._find_best_match, after _get_candidates returned
\* `candidates`
FindBestMatch(candidates, a, matched, tol) ==
    IF candidates = <<>> THEN NoMatch
    ELSE BestOf(candidates, a, matched, tol, NoMatch, 0)

\* _find_best_match raises iff one of its similarity computations does
FindBestMatchRaises(candidates, a, matched, tol) ==
    \E k \in 1..Len(candidates) :
        /\ candidates[k].idx \notin matched
        /\ SimilarityRaises(Elem(a), Elem(candidates[k].elem), tol)

\* match_elements, lines 82-85: the index recorded as consumed for a match
ConsumedIndex(B, best_match) == FirstIndex(B, best_match.element_b, {})

----------------------------------------------------------------------------
(* Difference detector *)

\* DiffDetector._has_position_change
HasPositionChange(ea, eb, tol) ==
    distance_to(GetElementCenter(ea), GetElementCenter(eb)) > tol.position

\* DiffDetector._has_size_change
HasSizeChange(ea, eb, tol) ==
    CASE ea.type = "Line" /\ eb.type = "Line" ->
            /\ LineLength(ea) > 0
            /\ Abs(LineLength(ea) - LineLength(eb)) * 1000 > LineLength(ea) * tol.length_ratio
      [] ea.type \in {"Circle", "Arc"} /\ eb.type \in {"Circle", "Arc"} ->
            Abs(ea.radius - eb.radius) > tol.radius_tolerance
      [] ea.type = "Text" /\ eb.type = "Text" ->
            /\ ea.height > 0
            /\ Abs(ea.height - eb.height) * 1000 > ea.height * tol.length_ratio
      [] OTHER -> FALSE

\* DiffDetector._has_shape_change
HasShapeChange(ea, eb, tol) ==
    CASE ea.type = "Arc" /\ eb.type = "Arc" ->
            \/ Abs(ea.start_angle - eb.start_angle) > tol.angle
            \/ Abs(ea.end_angle - eb.end_angle) > tol.angle
      [] ea.type = "Text" /\ eb.type = "Text" -> ea.content # eb.content
      [] OTHER -> FALSE

HasAttr(e, name) == name \in DOMAIN e

\* The attributes _has_attribute_change and _calculate_attribute_changes
\* compare, in the order of the source
ComparedAttributes == <<"layer", "color", "line_type", "font">>

\* DiffDetector._has_attribute_change
HasAttributeChange(ea, eb) ==
    \E k \in 1..Len(ComparedAttributes) :
        LET name == ComparedAttributes[k]
        IN  HasAttr(ea, name) /\ HasAttr(eb, name) /\ ea[name] # eb[name]

\* DiffDetector._has_orientation_change
HasOrientationChange(ea, eb, tol) ==
    CASE ea.type = "Line" /\ eb.type = "Line" ->
            LET d == Abs(LineAngle(ea) - LineAngle(eb))
            IN  Min2(d, TwoPi - d) > tol.angle
      [] ea.type = "Text" /\ eb.type = "Text" ->
            Abs(ea.rotation - eb.rotation) > tol.angle
      [] OTHER -> FALSE

\* DiffDetector._identify_modification_types
IdentifyModificationTypes(ea, eb, tol) ==
    (IF HasPositionChange(ea, eb, tol) THEN <<"position">> ELSE <<>>)
    \o (IF HasSizeChange(ea, eb, tol) THEN <<"size">> ELSE <<>>)
    \o (IF HasShapeChange(ea, eb, tol) THEN <<"shape">> ELSE <<>>)
    \o (IF HasAttributeChange(ea, eb) THEN <<"attribute">> ELSE <<>>)
    \o (IF HasOrientationChange(ea, eb, tol) THEN <<"orientation">> ELSE <<>>)

\* DiffDetector._calculate_geometric_changes
CalculateGeometricChanges(ea, eb) ==
    LET ca == GetElementCenter(ea)
        cb == GetElementCenter(eb)
        common == [position_distance |-> distance_to(ca, cb),
                   position_x_change |-> cb.x - ca.x,
                   position_y_change |-> cb.y - ca.y]
    IN  CASE ea.type = "Line" /\ eb.type = "Line" ->
                common @@ [length_change |-> LineLength(eb) - LineLength(ea),
                           angle_change |-> LineAngle(eb) - LineAngle(ea)]
          [] ea.type = "Circle" /\ eb.type \in {"Circle", "Arc"} ->
                common @@ [radius_change |-> eb.radius - ea.radius]
          [] ea.type = "Arc" /\ eb.type = "Arc" ->
                common @@ [radius_change |-> eb.radius - ea.radius,
                           arc_length_change |-> ArcLength(eb) - ArcLength(ea),
                           start_angle_change |-> eb.start_angle - ea.start_angle,
                           end_angle_change |-> eb.end_angle - ea.end_angle]
          [] ea.type = "Text" /\ eb.type = "Text" ->
                common @@ [height_change |-> eb.height - ea.height,
                           rotation_change |-> eb.rotation - ea.rotation,
                           content_length_change |-> Len(eb.content) - Len(ea.content)]
          [] OTHER -> common

\* DiffDetector._calculate_attribute_changes: the changed attributes, each
\* with its old and new value
CalculateAttributeChanges(ea, eb) ==
    {[name |-> ComparedAttributes[k],
      from |-> ea[ComparedAttributes[k]], to |-> eb[ComparedAttributes[k]]] :
        k \in {j \in 1..Len(ComparedAttributes) :
                 /\ HasAttr(ea, ComparedAttributes[j]) /\ HasAttr(eb, ComparedAttributes[j])
                 /\ ea[ComparedAttributes[j]] # eb[ComparedAttributes[j]]}}
    \cup (IF ea.type = "Text" /\ eb.type = "Text" /\ ea.content # eb.content
          THEN {[name |-> "content", from |-> ea.content, to |-> eb.content]}
          ELSE {})

\* An Unchanged test at the "exact" level of the matcher, 0.95
IsUnchanged_Exact(similarity) == similarity >= 950

\* The threshold of _analyze_modification: similarity >= 0.999
IsUnchanged(similarity) == similarity >= 999

\* DiffDetector._analyze_modification
AnalyzeModification(match, tol) ==
    LET ea == Elem(match.element_a)
        eb == Elem(match.element_b)
    IN  [element_a |-> match.element_a,
         element_b |-> match.element_b,
         diff_type |-> IF IsUnchanged(match.similarity) THEN "unchanged" ELSE "modified",
         modification_types |->
             IF IsUnchanged(match.similarity) THEN <<>>
             ELSE IdentifyModificationTypes(ea, eb, tol),
         similarity |-> match.similarity,
         confidence |-> match.confidence,
         geometric_changes |-> CalculateGeometricChanges(ea, eb),
         attribute_changes |-> CalculateAttributeChanges(ea, eb)]

\* DiffDetector._find_element_index: the first index holding the object
FindElementIndex(target, L) == FirstIndex(L, target, {})

\* detect_differences 2.1: one detail per match whose elements are found
RECURSIVE MatchedDetails(_, _, _, _)
MatchedDetails(ms, A, B, tol) ==
    IF ms = <<>> THEN <<>>
    ELSE LET m == Head(ms)
         IN  (IF FindElementIndex(m.element_a, A) # 0 /\ FindElementIndex(m.element_b, B) # 0
              THEN <<AnalyzeModification(m, tol)>> ELSE <<>>)
             \o MatchedDetails(Tail(ms), A, B, tol)

\* detect_differences 2.1: the index sets matched_a_ids and matched_b_ids of
\* the detector
DetectorMatchedA(ms, A, B) ==
    {FindElementIndex(ms[k].element_a, A) :
        k \in {j \in 1..Len(ms) : FindElementIndex(ms[j].element_a, A) # 0
                                  /\ FindElementIndex(ms[j].element_b, B) # 0}}

DetectorMatchedB(ms, A, B) ==
    {FindElementIndex(ms[k].element_b, B) :
        k \in {j \in 1..Len(ms) : FindElementIndex(ms[j].element_a, A) # 0
                                  /\ FindElementIndex(ms[j].element_b, B) # 0}}

\* The Deleted detail of detect_differences 2.2
DeletedDetail(o) ==
    [element_a |-> o, element_b |-> NoElement, diff_type |-> "deleted",
     modification_types |-> <<>>, similarity |-> 0, confidence |-> SimOne,
     geometric_changes |-> <<>>, attribute_changes |-> {}]

\* An Added detail with the element stored on the A side
AddedDetail_Swapped(o) ==
    [element_a |-> o, element_b |-> NoElement, diff_type |-> "added",
     modification_types |-> <<>>, similarity |-> 0, confidence |-> SimOne,
     geometric_changes |-> <<>>, attribute_changes |-> {}]

\* The Added detail of detect_differences 2.3
AddedDetail(o) ==
    [element_a |-> NoElement, element_b |-> o, diff_type |-> "added",
     modification_types |-> <<>>, similarity |-> 0, confidence |-> SimOne,
     geometric_changes |-> <<>>, attribute_changes |-> {}]

\* detect_differences 2.2 and 2.3: the elements at the indices not matched,
\* in list order
RECURSIVE UnmatchedFrom(_, _, _)
UnmatchedFrom(L, matched_ids, j) ==
    IF j > Len(L) THEN <<>>
    ELSE (IF j \notin matched_ids THEN <<L[j]>> ELSE <<>>)
         \o UnmatchedFrom(L, matched_ids, j + 1)

\* detect_differences, part 2: the list of differences
BuildDifferences(ms, A, B, tol) ==
    LET deleted == UnmatchedFrom(A, DetectorMatchedA(ms, A, B), 1)
        added == UnmatchedFrom(B, DetectorMatchedB(ms, A, B), 1)
    IN  MatchedDetails(ms, A, B, tol)
        \o [k \in 1..Len(deleted) |-> DeletedDetail(deleted[k])]
        \o [k \in 1..Len(added) |-> AddedDetail(added[k])]

CountType(ds, t) == Cardinality({k \in 1..Len(ds) : ds[k].diff_type = t})

CountModification(ds, t) ==
    Cardinality({k \in 1..Len(ds) :
                   \E j \in 1..Len(ds[k].modification_types) : ds[k].modification_types[j] = t})

\* change_rate of DiffDetector._calculate_statistics, in thousandths
ChangeRate(total_differences, total_elements) ==
    IF total_elements > 0 THEN (SimOne * total_differences) \div total_elements ELSE 0

\* DiffDetector._calculate_statistics
CalculateStatistics(A, B, ds) ==
    LET total_differences ==
            CountType(ds, "added") + CountType(ds, "deleted") + CountType(ds, "modified")
    IN  [total_elements_a |-> Len(A),
         total_elements_b |-> Len(B),
         added_count |-> CountType(ds, "added"),
         deleted_count |-> CountType(ds, "deleted"),
         modified_count |-> CountType(ds, "modified"),
         unchanged_count |-> CountType(ds, "unchanged"),
         position_changes |-> CountModification(ds, "position"),
         size_changes |-> CountModification(ds, "size"),
         shape_changes |-> CountModification(ds, "shape"),
         attribute_changes |-> CountModification(ds, "attribute"),
         orientation_changes |-> CountModification(ds, "orientation"),
         total_differences |-> total_differences,
         change_rate |-> ChangeRate(total_differences, Max2(Len(A), Len(B)))]

----------------------------------------------------------------------------
(* detect_differences as a process: match_elements element by element,    *)
(* then the analysis of the matches                                        *)

\* The construction variables while no configuration is constructed
ConfigUnused ==
    /\ config = Standard
    /\ config_status = "none"

\* The component variables while no component is used on its own
ComponentsUnused ==
    /\ calculator = [tolerance |-> Standard, method |-> "weighted",
                     similarity_cache |-> <<>>]
    /\ heap = <<>>
    /\ call = <<>>
    /\ spatial_index = <<>>
    /\ processing_time = 0
    /\ previous_run = <<>>

\* The engine variables while detect_differences is used on its own
EngineUnused ==
    /\ epc = "unused"
    /\ api = "none"
    /\ enable_caching = FALSE
    /\ output_dir = FALSE
    /\ file_pairs = <<>>
    /\ batch_i = 1
    /\ results = <<>>
    /\ saved = <<>>
    /\ matching_statistics = NoValue
    /\ parsing_cache = {}
    /\ comparison_cache = <<>>
    /\ total_comparisons = 0
    /\ successful_comparisons = 0
    /\ failed_comparisons = 0

Init ==
    /\ elements_a \in SeqsUpTo(Pool, MaxLen)
    /\ elements_b \in SeqsUpTo(Pool, MaxLen)
    /\ tolerance \in RunTolerances
    /\ pc = "start"
    /\ loop_i = 1
    /\ matches = <<>>
    /\ matched_b_ids = {}
    /\ differences = <<>>
    /\ statistics = NoValue
    /\ stage = "detect"
    /\ EngineUnused
    /\ ConfigUnused
    /\ ComponentsUnused

\* detect_differences on the lists of a scenario
InitScenarios ==
    /\ \E pool \in ScenarioPools :
          /\ elements_a \in SeqsUpTo(pool, MaxLen)
          /\ elements_b \in SeqsUpTo(pool, MaxLen)
    /\ tolerance \in ScenarioTolerances
    /\ pc = "start"
    /\ loop_i = 1
    /\ matches = <<>>
    /\ matched_b_ids = {}
    /\ differences = <<>>
    /\ statistics = NoValue
    /\ stage = "detect"
    /\ EngineUnused
    /\ ConfigUnused
    /\ ComponentsUnused

\* match_elements up to its loop: the indexes are rebuilt, the result
\* lists are empty
BuildSpatialIndexes ==
    /\ pc = "start"
    /\ pc' = "matching"
    /\ loop_i' = 1
    /\ matches' = <<>>
    /\ matched_b_ids' = {}
    /\ UNCHANGED <<elements_a, elements_b, tolerance, differences, statistics, stage>>
    /\ UNCHANGED <<engine_vars, config_vars, component_vars, run_vars>>

\* One iteration of the loop of match_elements
MatchStep ==
    /\ pc = "matching"
    /\ loop_i <= Len(elements_a)
    /\ \E nearby \in Orders(QueryNearby(elements_b, elements_a[loop_i],
                                        tolerance.max_search_radius)) :
          LET candidates == GetCandidates(nearby, elements_a[loop_i], elements_b,
                                          matched_b_ids, tolerance)
              best_match == FindBestMatch(candidates, elements_a[loop_i],
                                          matched_b_ids, tolerance)
          IN  /\ ~FindBestMatchRaises(candidates, elements_a[loop_i],
                                      matched_b_ids, tolerance)
              /\ IF /\ best_match # NoMatch
                    /\ MeetsThreshold(best_match[1].similarity, tolerance)
                 THEN /\ matches' = Append(matches, best_match[1])
                      /\ matched_b_ids' =
                             matched_b_ids
                                 \cup {ConsumedIndex(elements_b, best_match[1])}
                 ELSE UNCHANGED <<matches, matched_b_ids>>
    /\ loop_i' = loop_i + 1
    /\ UNCHANGED <<elements_a, elements_b, tolerance, pc, differences, statistics, stage>>
    /\ UNCHANGED <<engine_vars, config_vars, component_vars, run_vars>>

\* An iteration whose similarity computation divides by zero: the
\* exception leaves match_elements and detect_differences
MatchRaise ==
    /\ pc = "matching"
    /\ loop_i <= Len(elements_a)
    /\ \E nearby \in Orders(QueryNearby(elements_b, elements_a[loop_i],
                                        tolerance.max_search_radius)) :
          FindBestMatchRaises(GetCandidates(nearby, elements_a[loop_i], elements_b,
                                            matched_b_ids, tolerance),
                              elements_a[loop_i], matched_b_ids, tolerance)
    /\ pc' = "raised"
    /\ UNCHANGED <<elements_a, elements_b, tolerance, loop_i, matches,
                   matched_b_ids, differences, statistics, stage>>
    /\ UNCHANGED <<engine_vars, config_vars, component_vars, run_vars>>

\* time.time() - start_time at the end of detect_differences, in
\* milliseconds: what the wall clock makes of one run
ProcessingTimes == {1, 2}

\* detect_differences after match_elements returned: the differences and
\* the statistics, whose processing_time is the variable of that name
AnalyzeDifferences ==
    /\ pc = "matching"
    /\ stage = "detect"
    /\ loop_i > Len(elements_a)
    /\ differences' = BuildDifferences(matches, elements_a, elements_b, tolerance)
    /\ statistics' = CalculateStatistics(elements_a, elements_b, differences')
    /\ processing_time' \in ProcessingTimes
    /\ pc' = "done"
    /\ UNCHANGED <<elements_a, elements_b, tolerance, loop_i, matches,
                   matched_b_ids, stage, previous_run>>
    /\ UNCHANGED <<engine_vars, config_vars, component_vars>>

Next ==
    \/ BuildSpatialIndexes
    \/ MatchStep
    \/ MatchRaise
    \/ AnalyzeDifferences

Spec == Init /\ [][Next]_vars

SpecScenarios == InitScenarios /\ [][Next]_vars

\* detect_differences is called again with the same lists on the same
\* detector, after its first result was kept
RunAgain ==
    /\ pc = "done"
    /\ stage = "detect"
    /\ previous_run = <<>>
    /\ previous_run' = <<[differences |-> differences, statistics |-> statistics,
                          processing_time |-> processing_time]>>
    /\ pc' = "start"
    /\ differences' = <<>>
    /\ statistics' = NoValue
    /\ UNCHANGED <<elements_a, elements_b, tolerance, loop_i, matches,
                   matched_b_ids, stage, processing_time>>
    /\ UNCHANGED <<engine_vars, config_vars, component_vars>>

NextRerun ==
    \/ Next
    \/ RunAgain

SpecRerun == Init /\ [][NextRerun]_vars

----------------------------------------------------------------------------
(* Comparison engine: compare_files and batch_compare *)

MaxPairs ==
    2

\* The paths of the model: two drawings and a path with no file
Files == {"a.pdf", "b.pdf", "missing.pdf"}

\* os.path.exists
Exists(f) == f # "missing.pdf"

\* PDFParser.parse_file raises ValueError for a file it cannot open
Parseable(f) == f # "missing.pdf"

\* str(e) of the ValueError of parse_file, "PDF解析失败: ..."
ParseErrorMessage == "PDF parse failed"

\* str(e) of the ZeroDivisionError of a similarity computation
ZeroDivisionMessage == "float division by zero"

\* The elements parse_file and the normalizer produce for a file
FileElements(f) ==
    CASE f = "a.pdf" -> <<1>>
      [] f = "b.pdf" -> <<3, 4>>
      [] OTHER -> <<>>

\* A second parse of the same file builds new objects of equal value
Reparsed(o) ==
    CASE o = 1 -> 2
      [] o = 3 -> 5
      [] o = 4 -> 6
      [] OTHER -> o

\* _parse_pdf_file for file_b after file_a was parsed: the cached objects
\* when the engine caches and file_b is file_a, new objects otherwise
ParsedElementsB(file_a, file_b, caching) ==
    IF file_b = file_a /\ ~caching
    THEN [k \in 1..Len(FileElements(file_b)) |-> Reparsed(FileElements(file_b)[k])]
    ELSE FileElements(file_b)

\* The filter of _preprocess_elements
KeepElement(e) ==
    /\ e.type = "Line" => LineLength(e) >= 10
    /\ HasAttr(e, "radius") => e.radius >= 10
    /\ HasAttr(e, "height") => e.height >= 100

\* PDFComparisonEngine._preprocess_elements
PreprocessElements(L) == SelectSeq(L, LAMBDA o : KeepElement(Elem(o)))

\* PDFComparisonEngine._postprocess_differences: drops confidence < 0.3
PostprocessDifferences(ds) == SelectSeq(ds, LAMBDA d : d.confidence >= 300)

RECURSIVE SumSimilarity(_)
SumSimilarity(ms) ==
    IF ms = <<>> THEN 0 ELSE Head(ms).similarity + SumSimilarity(Tail(ms))

CountMatchType(ms, t) == Cardinality({k \in 1..Len(ms) : ms[k].match_type = t})

\* ElementMatcher._calculate_statistics
MatcherStatistics(A, B, ms) ==
    [total_elements_a |-> Len(A),
     total_elements_b |-> Len(B),
     matched_pairs |-> Len(ms),
     unmatched_a |-> Len(A) - Len(ms),
     unmatched_b |-> Len(B) - Cardinality({ms[k].element_b : k \in 1..Len(ms)}),
     exact_matches |-> CountMatchType(ms, "exact"),
     similar_matches |-> CountMatchType(ms, "similar"),
     partial_matches |-> CountMatchType(ms, "partial"),
     average_similarity |-> IF ms = <<>> THEN 0 ELSE SumSimilarity(ms) \div Len(ms)]

\* MatchingStatistics(0, 0, 0, 0, 0, 0, 0, 0, 0.0, 0.0)
ZeroMatchingStatistics ==
    [total_elements_a |-> 0, total_elements_b |-> 0, matched_pairs |-> 0,
     unmatched_a |-> 0, unmatched_b |-> 0, exact_matches |-> 0,
     similar_matches |-> 0, partial_matches |-> 0, average_similarity |-> 0]

\* DifferenceStatistics(0, ..., 0.0, 0.0, {})
ZeroDifferenceStatistics ==
    [total_elements_a |-> 0, total_elements_b |-> 0, added_count |-> 0,
     deleted_count |-> 0, modified_count |-> 0, unchanged_count |-> 0,
     position_changes |-> 0, size_changes |-> 0, shape_changes |-> 0,
     attribute_changes |-> 0, orientation_changes |-> 0,
     total_differences |-> 0, change_rate |-> 0]

\* The key of the comparison cache; hash(str(config)) is the same for all
\* calls of one engine
CacheKey(file_a, file_b) == <<file_a, file_b>>

\* The comparison id: batch_compare passes batch_<time>_<i>, a direct call
\* of compare_files generates comp_<time>_<hash>
ComparisonId == IF api = "batch_compare" THEN <<"batch", batch_i - 1>> ELSE <<"comp", 0>>

\* The ComparisonResult of the except branch of compare_files
ErrorResult(file_a, file_b, comparison_id, message) ==
    [file_a_path |-> file_a, file_b_path |-> file_b,
     comparison_id |-> comparison_id,
     elements_a_count |-> 0, elements_b_count |-> 0,
     matching_statistics |-> ZeroMatchingStatistics,
     differences |-> <<>>,
     difference_statistics |-> ZeroDifferenceStatistics,
     success |-> FALSE, error_message |-> message]

\* The ComparisonResult of a comparison that went through
SuccessResult(file_a, file_b, comparison_id, A, B, matching_stats, ds, diff_stats) ==
    [file_a_path |-> file_a, file_b_path |-> file_b,
     comparison_id |-> comparison_id,
     elements_a_count |-> Len(A), elements_b_count |-> Len(B),
     matching_statistics |-> matching_stats,
     differences |-> ds,
     difference_statistics |-> diff_stats,
     success |-> TRUE, error_message |-> NoValue]

\* The tolerances of the engines of the model: mode STANDARD, and a custom
\* tolerance_config with position 0
EngineTolerances == {Standard, ZeroPosition}

InitEngine ==
    /\ elements_a = <<>>
    /\ elements_b = <<>>
    /\ tolerance \in EngineTolerances
    /\ pc = "idle"
    /\ loop_i = 1
    /\ matches = <<>>
    /\ matched_b_ids = {}
    /\ differences = <<>>
    /\ statistics = NoValue
    /\ stage = "match"
    /\ epc = "idle"
    /\ api = "none"
    /\ enable_caching \in BOOLEAN
    /\ output_dir = FALSE
    /\ file_pairs = <<>>
    /\ batch_i = 1
    /\ results = <<>>
    /\ saved = <<>>
    /\ matching_statistics = NoValue
    /\ parsing_cache = {}
    /\ comparison_cache = <<>>
    /\ total_comparisons = 0
    /\ successful_comparisons = 0
    /\ failed_comparisons = 0
    /\ ConfigUnused
    /\ ComponentsUnused

\* compare_files returns r: a direct call returns to the caller,
\* batch_compare appends r, saves it when an output directory was given and
\* goes on with the next pair
ReturnResult(r) ==
    /\ results' = Append(results, r)
    /\ saved' = IF api = "batch_compare" /\ output_dir
                THEN Append(saved, r.comparison_id) ELSE saved
    /\ batch_i' = batch_i + 1
    /\ epc' = IF batch_i + 1 > Len(file_pairs) THEN "returned" ELSE "call"

\* The locals of compare_files are gone after its return
ForgetLocals ==
    /\ elements_a' = <<>>
    /\ elements_b' = <<>>
    /\ pc' = "idle"
    /\ loop_i' = 1
    /\ matches' = <<>>
    /\ matched_b_ids' = {}
    /\ differences' = <<>>
    /\ statistics' = NoValue
    /\ stage' = "match"
    /\ matching_statistics' = NoValue
    /\ UNCHANGED tolerance

\* A caller calls compare_files(file_a, file_b)
CompareFilesCall ==
    /\ epc = "idle"
    /\ \E file_a \in Files, file_b \in Files :
           file_pairs' = <<<<file_a, file_b>>>>
    /\ api' = "compare_files"
    /\ batch_i' = 1
    /\ epc' = "call"
    /\ UNCHANGED <<detector_vars, enable_caching, output_dir, results, saved,
                   matching_statistics, parsing_cache, comparison_cache,
                   total_comparisons, successful_comparisons, failed_comparisons>>
    /\ UNCHANGED <<config_vars, component_vars, run_vars>>

\* A caller calls batch_compare(file_pairs, output_dir)
BatchCompareCall ==
    /\ epc = "idle"
    /\ file_pairs' \in SeqsUpTo(Files \X Files, MaxPairs)
    /\ output_dir' \in BOOLEAN
    /\ api' = "batch_compare"
    /\ batch_i' = 1
    /\ epc' = IF file_pairs' = <<>> THEN "returned" ELSE "call"
    /\ UNCHANGED <<detector_vars, enable_caching, results, saved,
                   matching_statistics, parsing_cache, comparison_cache,
                   total_comparisons, successful_comparisons, failed_comparisons>>
    /\ UNCHANGED <<config_vars, component_vars, run_vars>>

\* compare_files finds the pair in the comparison cache
CacheHit ==
    /\ epc = "call"
    /\ enable_caching
    /\ CacheKey(file_pairs[batch_i][1], file_pairs[batch_i][2]) \in DOMAIN comparison_cache
    /\ ReturnResult(comparison_cache[CacheKey(file_pairs[batch_i][1],
                                              file_pairs[batch_i][2])])
    /\ UNCHANGED <<detector_vars, api, enable_caching, output_dir, file_pairs,
                   matching_statistics, parsing_cache, comparison_cache,
                   total_comparisons, successful_comparisons, failed_comparisons>>
    /\ UNCHANGED <<config_vars, component_vars, run_vars>>

\* compare_files with a failing parse whose exception leaves batch_compare
ParseFails_Aborts ==
    /\ epc = "call"
    /\ ~(/\ enable_caching
         /\ CacheKey(file_pairs[batch_i][1], file_pairs[batch_i][2])
                \in DOMAIN comparison_cache)
    /\ ~Parseable(file_pairs[batch_i][1]) \/ ~Parseable(file_pairs[batch_i][2])
    /\ parsing_cache' =
           IF enable_caching /\ Parseable(file_pairs[batch_i][1])
           THEN parsing_cache \cup {file_pairs[batch_i][1]} ELSE parsing_cache
    /\ total_comparisons' = total_comparisons + 1
    /\ failed_comparisons' = failed_comparisons + 1
    /\ epc' = "returned"
    /\ UNCHANGED <<detector_vars, api, enable_caching, output_dir, file_pairs,
                   batch_i, results, saved,
                   matching_statistics, comparison_cache, successful_comparisons>>
    /\ UNCHANGED <<config_vars, component_vars, run_vars>>

\* compare_files, _parse_pdf_file raises for file_a or for file_b: the
\* except branch returns the error result
ParseFails ==
    /\ epc = "call"
    /\ ~(/\ enable_caching
         /\ CacheKey(file_pairs[batch_i][1], file_pairs[batch_i][2])
                \in DOMAIN comparison_cache)
    /\ ~Parseable(file_pairs[batch_i][1]) \/ ~Parseable(file_pairs[batch_i][2])
    /\ parsing_cache' =
           IF enable_caching /\ Parseable(file_pairs[batch_i][1])
           THEN parsing_cache \cup {file_pairs[batch_i][1]} ELSE parsing_cache
    /\ total_comparisons' = total_comparisons + 1
    /\ failed_comparisons' = failed_comparisons + 1
    /\ ReturnResult(ErrorResult(file_pairs[batch_i][1], file_pairs[batch_i][2],
                                ComparisonId, ParseErrorMessage))
    /\ UNCHANGED <<detector_vars, api, enable_caching, output_dir, file_pairs,
                   matching_statistics, comparison_cache, successful_comparisons>>
    /\ UNCHANGED <<config_vars, component_vars, run_vars>>

\* compare_files, steps 1 and 2: both files parse, the elements are
\* preprocessed and the engine's matcher is started
ParseOk ==
    /\ epc = "call"
    /\ ~(/\ enable_caching
         /\ CacheKey(file_pairs[batch_i][1], file_pairs[batch_i][2])
                \in DOMAIN comparison_cache)
    /\ Parseable(file_pairs[batch_i][1]) /\ Parseable(file_pairs[batch_i][2])
    /\ parsing_cache' =
           IF enable_caching
           THEN parsing_cache \cup {file_pairs[batch_i][1], file_pairs[batch_i][2]}
           ELSE parsing_cache
    /\ elements_a' = PreprocessElements(FileElements(file_pairs[batch_i][1]))
    /\ elements_b' = PreprocessElements(ParsedElementsB(file_pairs[batch_i][1],
                                                        file_pairs[batch_i][2],
                                                        enable_caching))
    /\ pc' = "start"
    /\ stage' = "match"
    /\ epc' = "running"
    /\ UNCHANGED <<tolerance, loop_i, matches, matched_b_ids, differences, statistics>>
    /\ UNCHANGED <<api, enable_caching, output_dir, file_pairs, batch_i, results,
                   saved, matching_statistics, comparison_cache,
                   total_comparisons, successful_comparisons, failed_comparisons>>
    /\ UNCHANGED <<config_vars, component_vars, run_vars>>

\* compare_files, step 3: the engine's match_elements returned; next is
\* detect_differences, which runs match_elements of its own matcher
EngineMatchDone ==
    /\ epc = "running"
    /\ pc = "matching"
    /\ stage = "match"
    /\ loop_i > Len(elements_a)
    /\ matching_statistics' = MatcherStatistics(elements_a, elements_b, matches)
    /\ stage' = "detect"
    /\ pc' = "start"
    /\ UNCHANGED <<elements_a, elements_b, tolerance, loop_i, matches,
                   matched_b_ids, differences, statistics>>
    /\ UNCHANGED <<epc, api, enable_caching, output_dir, file_pairs, batch_i,
                   results, saved, parsing_cache, comparison_cache,
                   total_comparisons, successful_comparisons, failed_comparisons>>
    /\ UNCHANGED <<config_vars, component_vars, run_vars>>

\* compare_files with a stage whose exception leaves compare_files
StageFails_Propagates ==
    /\ epc = "running"
    /\ pc = "raised"
    /\ epc' = "aborted"
    /\ ForgetLocals
    /\ UNCHANGED <<api, enable_caching, output_dir, file_pairs, batch_i, results,
                   saved, parsing_cache, comparison_cache, total_comparisons,
                   successful_comparisons, failed_comparisons>>
    /\ UNCHANGED <<config_vars, component_vars, run_vars>>

\* compare_files, a stage after parsing raised: the except branch returns
\* the error result
StageFails ==
    /\ epc = "running"
    /\ pc = "raised"
    /\ total_comparisons' = total_comparisons + 1
    /\ failed_comparisons' = failed_comparisons + 1
    /\ ReturnResult(ErrorResult(file_pairs[batch_i][1], file_pairs[batch_i][2],
                                ComparisonId, ZeroDivisionMessage))
    /\ ForgetLocals
    /\ UNCHANGED <<api, enable_caching, output_dir, file_pairs, parsing_cache,
                   comparison_cache, successful_comparisons>>
    /\ UNCHANGED <<config_vars, component_vars, run_vars>>

\* compare_files, steps 4 to 7: postprocessing, the result, the cache and
\* the counters
CompareSucceeds ==
    /\ epc = "running"
    /\ pc = "done"
    /\ LET result == SuccessResult(file_pairs[batch_i][1], file_pairs[batch_i][2],
                                   ComparisonId, elements_a, elements_b,
                                   matching_statistics,
                                   PostprocessDifferences(differences), statistics)
       IN  /\ comparison_cache' =
                  IF enable_caching
                  THEN (CacheKey(file_pairs[batch_i][1], file_pairs[batch_i][2])
                            :> result) @@ comparison_cache
                  ELSE comparison_cache
           /\ ReturnResult(result)
    /\ total_comparisons' = total_comparisons + 1
    /\ successful_comparisons' = successful_comparisons + 1
    /\ ForgetLocals
    /\ UNCHANGED <<api, enable_caching, output_dir, file_pairs, parsing_cache,
                   failed_comparisons>>
    /\ UNCHANGED <<config_vars, component_vars, run_vars>>

\* str(e) of the exceptions of ComparisonService.compare_files
FileANotFoundMessage == "file A not found"

FileBNotFoundMessage == "file B not found"

NoPresetConfigMessage == "ToleranceManager has no attribute get_preset_config"

UnexpectedKeywordMessage == "unexpected keyword argument output_formats"

\* What configuring the engine raises for existing files.  The
\* ToleranceManager of app/services/pdf_comparison/matching/tolerance.py has
\* neither get_preset_config nor create_custom_config (AttributeError); with
\* a manager that has them, ComparisonConfig(output_formats=...) is a
\* TypeError, ComparisonConfig having no such field.
ConfigureMessages == {NoPresetConfigMessage, UnexpectedKeywordMessage}

\* ComparisonService.compare_files: the response to one request; the except
\* branch turns every exception into a FAILED response.
ServiceCompareFiles(request, k, configure_message) ==
    [comparison_id |-> <<"comp", k>>,
     status |-> "failed",
     success |-> FALSE,
     error_message |->
         IF ~Exists(request[1]) THEN FileANotFoundMessage
         ELSE IF ~Exists(request[2]) THEN FileBNotFoundMessage
         ELSE configure_message]

\* ComparisonService.batch_compare: asyncio.gather keeps the order of the
\* requests, and every gathered response is appended
ServiceBatchCompare ==
    /\ epc = "idle"
    /\ file_pairs' \in SeqsUpTo(Files \X Files, MaxPairs)
    /\ api' = "service_batch"
    /\ \E configure_message \in ConfigureMessages :
           results' = [k \in 1..Len(file_pairs') |->
                          ServiceCompareFiles(file_pairs'[k], k, configure_message)]
    /\ batch_i' = Len(file_pairs') + 1
    /\ epc' = "returned"
    /\ UNCHANGED <<detector_vars, enable_caching, output_dir, saved,
                   matching_statistics, parsing_cache, comparison_cache,
                   total_comparisons, successful_comparisons, failed_comparisons>>
    /\ UNCHANGED <<config_vars, component_vars, run_vars>>

NextEngine ==
    \/ CompareFilesCall
    \/ BatchCompareCall
    \/ CacheHit
    \/ ParseFails
    \/ ParseOk
    \/ BuildSpatialIndexes
    \/ MatchStep
    \/ MatchRaise
    \/ EngineMatchDone
    \/ AnalyzeDifferences
    \/ StageFails
    \/ CompareSucceeds
    \/ ServiceBatchCompare

SpecEngine == InitEngine /\ [][NextEngine]_vars

----------------------------------------------------------------------------
(* Construction of tolerance configurations *)

MaxScaledLength ==
    80000

\* The defaults of the fields of ToleranceConfig
Defaults ==
    [position |-> 100, length_ratio |-> 10, angle |-> 170,
     similarity_threshold |-> 800, text_position |-> 1000,
     text_content_similarity |-> 900, radius_tolerance |-> 100,
     arc_angle_tolerance |-> 870, enable_fuzzy_matching |-> TRUE,
     max_search_radius |-> 10000, max_candidates_per_element |-> 50,
     enable_early_termination |-> TRUE]

\* The fields that are lengths in millimetres
LengthFields == {"position", "text_position", "radius_tolerance", "max_search_radius"}

\* The fields that are ratios or thresholds
RatioFields == {"length_ratio", "similarity_threshold", "text_content_similarity"}

\* The fields that are angles in radians
AngleFields == {"angle", "arc_angle_tolerance"}

NumericFields ==
    LengthFields \cup RatioFields \cup AngleFields \cup {"max_candidates_per_element"}

\* The values a caller passes for a field: negative, zero, usual and large
ArgumentValues(f) ==
    IF f \in LengthFields THEN {-1000, 0, 50, 20000}
    ELSE IF f \in RatioFields THEN {-100, 0, 500, 1000, 1500}
    ELSE IF f \in AngleFields THEN {-100, 0, 350}
    ELSE {-1, 0, 10}

\* math.radians of a number of degrees
Radians(degrees) == (degrees * Pi) \div 180

\* The keys of the dictionaries given to from_dict
DictKeys == NumericFields \cup {"angle_degrees", "arc_angle_degrees", "unknown"}

DictValues(key) ==
    IF key \in NumericFields THEN ArgumentValues(key) ELSE {-1, 0, 2}

\* ToleranceConfig.from_dict for a dictionary with one key: the arguments
\* of the constructor
FromDict(key, value) ==
    IF key = "angle_degrees" THEN [Defaults EXCEPT !.angle = Radians(value)]
    ELSE IF key = "arc_angle_degrees"
    THEN [Defaults EXCEPT !.arc_angle_tolerance = Radians(value)]
    ELSE IF key \in NumericFields THEN [Defaults EXCEPT ![key] = value]
    ELSE Defaults

\* ToleranceConfig.scale for a factor > 0 (in thousandths): the arguments
\* of the constructor
Scaled(c, factor) ==
    [c EXCEPT !.position = (c.position * factor) \div 1000,
              !.similarity_threshold = Max2(100, Min2(1000, c.similarity_threshold)),
              !.text_position = (c.text_position * factor) \div 1000,
              !.radius_tolerance = (c.radius_tolerance * factor) \div 1000,
              !.max_search_radius = (c.max_search_radius * factor) \div 1000]

\* The factors given to scale
ScaleFactors == {-1000, 0, 500, 2000}

\* The constructor with __post_init__: the object exists iff
\* _validate_parameters raises no ValueError
Construct(c) ==
    IF ValidateParameters(c)
    THEN config' = c /\ config_status' = "constructed"
    ELSE config_status' = "rejected" /\ UNCHANGED config

InitTolerance ==
    /\ elements_a = <<>>
    /\ elements_b = <<>>
    /\ tolerance = Standard
    /\ pc = "idle"
    /\ loop_i = 1
    /\ matches = <<>>
    /\ matched_b_ids = {}
    /\ differences = <<>>
    /\ statistics = NoValue
    /\ stage = "detect"
    /\ EngineUnused
    /\ config = Defaults
    /\ config_status = "constructed"
    /\ ComponentsUnused

\* ToleranceConfig(field=value)
ConstructDirect ==
    /\ \E f \in NumericFields : \E v \in ArgumentValues(f) :
           Construct([Defaults EXCEPT ![f] = v])
    /\ UNCHANGED <<detector_vars, engine_vars, component_vars, run_vars>>

\* ToleranceConfig.ultra_precise(), high_precision(), standard(), relaxed()
ConstructPreset ==
    /\ \E preset \in Presets : Construct(preset)
    /\ UNCHANGED <<detector_vars, engine_vars, component_vars, run_vars>>

\* ToleranceConfig.custom(key=value): an unknown key is a ValueError, a
\* known one is set on the standard configuration, which is validated again
ConstructCustom ==
    /\ \E key \in NumericFields \cup {"unknown"} : \E v \in DictValues(key) :
           IF key = "unknown"
           THEN config_status' = "rejected" /\ UNCHANGED config
           ELSE Construct([Standard EXCEPT ![key] = v])
    /\ UNCHANGED <<detector_vars, engine_vars, component_vars, run_vars>>

\* ToleranceConfig.from_dict({key: value})
ConstructFromDict ==
    /\ \E key \in DictKeys : \E v \in DictValues(key) : Construct(FromDict(key, v))
    /\ UNCHANGED <<detector_vars, engine_vars, component_vars, run_vars>>

\* config.scale(factor) on the configuration constructed last
ScaleConfig ==
    /\ \E factor \in ScaleFactors :
           IF factor <= 0
           THEN config_status' = "rejected" /\ UNCHANGED config
           ELSE /\ \A f \in LengthFields :
                       Abs(Scaled(config, factor)[f]) <= MaxScaledLength
                /\ Construct(Scaled(config, factor))
    /\ UNCHANGED <<detector_vars, engine_vars, component_vars, run_vars>>

NextTolerance ==
    \/ ConstructDirect
    \/ ConstructPreset
    \/ ConstructCustom
    \/ ConstructFromDict
    \/ ScaleConfig

SpecTolerance == InitTolerance /\ [][NextTolerance]_vars

----------------------------------------------------------------------------
(* Similarity calculator *)

\* SimilarityMethod
Methods == {"weighted", "euclidean", "manhattan", "cosine", "jaccard", "hausdorff"}

\* The element values the calculator is called with: two close circles, a
\* line and the same line drawn backwards in red, the degenerate line and
\* circle at the origin, an arc and two texts
CalculatorElements ==
    {Elem(1), Elem(3), Elem(4),
     Line(Point(10000, 0), Point(0, 0), "red"),
     Line(Point(0, 0), Point(0, 0), "black"),
     Circle(Point(0, 0), 0, "black"),
     Arc(Point(0, 0), 3000, 0, 15708, "black"),
     Text(Point(0, 0), <<"A", "B">>, 3000, "Arial"),
     Text(Point(0, 0), <<"A">>, 2000, "Times")}

\* SimilarityCalculator._levenshtein_distance
RECURSIVE LevenshteinDistance(_, _)
LevenshteinDistance(s1, s2) ==
    IF s1 = <<>> THEN Len(s2)
    ELSE IF s2 = <<>> THEN Len(s1)
    ELSE Min2(Min2(LevenshteinDistance(Tail(s1), s2) + 1,
                   LevenshteinDistance(s1, Tail(s2)) + 1),
              LevenshteinDistance(Tail(s1), Tail(s2))
                  + (IF Head(s1) = Head(s2) THEN 0 ELSE 1))

\* SimilarityCalculator._calculate_geometric_similarity with the normalised
\* weights position 0.3, shape 0.4, size 0.2, orientation 0.1.  The
\* position, length, angle and end point scores are the formulas of the
\* matcher, which the calculator repeats.
CalculatorGeometricSimilarity(ea, eb, tol) ==
    LET radius_sim == Falloff(Abs(ea.radius - eb.radius), tol.radius_tolerance)
        content_sim ==
            IF ea.content = eb.content THEN SimOne
            ELSE IF ea.content = <<>> \/ eb.content = <<>> THEN 0
            ELSE SimOne - (SimOne * LevenshteinDistance(ea.content, eb.content))
                              \div Max2(Len(ea.content), Len(eb.content))
        Weighted(position_sim, size_sim, shape_sim, orientation_sim) ==
            (300 * position_sim + 200 * size_sim + 400 * shape_sim
             + 100 * orientation_sim) \div 1000
    IN  CASE ea.type = "Line" ->
                Weighted(PositionSimilarity(GetElementCenter(ea), GetElementCenter(eb), tol),
                         LengthSimilarity(LineLength(ea), LineLength(eb), tol),
                         EndpointSimilarity(ea, eb, tol),
                         AngleSimilarity(LineAngle(ea), LineAngle(eb), tol))
          [] ea.type = "Circle" ->
                Weighted(PositionSimilarity(ea.center, eb.center, tol),
                         radius_sim, SimOne, SimOne)
          [] ea.type = "Arc" ->
                Weighted(PositionSimilarity(ea.center, eb.center, tol),
                         radius_sim,
                         LengthSimilarity(ArcLength(ea), ArcLength(eb), tol),
                         (AngleSimilarity(ea.start_angle, eb.start_angle, tol)
                          + AngleSimilarity(ea.end_angle, eb.end_angle, tol)) \div 2)
          [] ea.type = "Text" ->
                Weighted(PositionSimilarity(ea.position, eb.position, tol),
                         LengthSimilarity(ea.height, eb.height, tol),
                         content_sim,
                         AngleSimilarity(ea.rotation, eb.rotation, tol))

\* SimilarityCalculator._calculate_attribute_similarity, for two elements
\* of one variant: layer and colour always, line type of lines, font of texts
CalculatorAttributeSimilarity(ea, eb) ==
    LET layer_sim == IF ea.layer = eb.layer THEN 1000 ELSE 500
        color_sim == IF ea.color = eb.color THEN 1000 ELSE 300
    IN  CASE ea.type = "Line" ->
                (layer_sim + color_sim
                 + (IF ea.line_type = eb.line_type THEN 1000 ELSE 700)) \div 3
          [] ea.type = "Text" ->
                (layer_sim + color_sim
                 + (IF ea.font = eb.font THEN 1000 ELSE 800)) \div 3
          [] OTHER -> (layer_sim + color_sim) \div 2

\* SimilarityCalculator._calculate_weighted_similarity
WeightedSimilarity(ea, eb, tol) ==
    LET geometric_sim == CalculatorGeometricSimilarity(ea, eb, tol)
        attribute_sim == CalculatorAttributeSimilarity(ea, eb)
    IN  [overall_similarity |->
             (600 * geometric_sim + 300 * attribute_sim + 100 * SimOne) \div 1000,
         geometric_similarity |-> geometric_sim,
         attribute_similarity |-> attribute_sim]

\* The divisions of _calculate_weighted_similarity (geometric similarity,
\* detailed scores): TRUE iff one of them divides by zero
WeightedRaises(ea, eb, tol) ==
    \/ tol.position = 0
    \/ /\ ea.type = "Line"
       /\ \/ tol.angle = 0
          \/ tol.length_ratio = 0 /\ Max2(LineLength(ea), LineLength(eb)) # 0
    \/ ea.type \in {"Circle", "Arc"} /\ tol.radius_tolerance = 0
    \/ ea.type = "Circle" /\ tol.length_ratio = 0 /\ Max2(ea.radius, eb.radius) # 0
    \/ /\ ea.type = "Arc"
       /\ \/ tol.angle = 0
          \/ tol.length_ratio = 0 /\ Max2(ArcLength(ea), ArcLength(eb)) # 0
    \/ /\ ea.type = "Text"
       /\ \/ tol.angle = 0
          \/ tol.length_ratio = 0 /\ Max2(ea.height, eb.height) # 0

\* SimilarityCalculator._element_to_vector, each component truncated to a
\* whole millimetre (radian, character)
ElementToVector(e) ==
    CASE e.type = "Line" ->
            <<e.start.x \div 1000, e.start.y \div 1000, e.end.x \div 1000,
              e.end.y \div 1000, LineLength(e) \div 1000, LineAngle(e) \div 10000>>
      [] e.type = "Circle" ->
            <<e.center.x \div 1000, e.center.y \div 1000, e.radius \div 1000,
              (Pi * (e.radius \div 1000) * (e.radius \div 1000)) \div 10000, 0, 0>>
      [] e.type = "Arc" ->
            <<e.center.x \div 1000, e.center.y \div 1000, e.radius \div 1000,
              ArcLength(e) \div 1000, e.start_angle \div 10000, e.end_angle \div 10000>>
      [] e.type = "Text" ->
            <<e.position.x \div 1000, e.position.y \div 1000, e.height \div 1000,
              Len(e.content), e.rotation \div 10000, 0>>

\* SimilarityCalculator._calculate_cosine_similarity: 0.0 when a norm is 0
CosineSimilarity(ea, eb) ==
    LET va == ElementToVector(ea)
        vb == ElementToVector(eb)
        Dot(v, w) == v[1] * w[1] + v[2] * w[2] + v[3] * w[3]
                     + v[4] * w[4] + v[5] * w[5] + v[6] * w[6]
    IN  IF Dot(va, va) = 0 \/ Dot(vb, vb) = 0 THEN 0
        ELSE (SimOne * Dot(va, vb)) \div Isqrt(Dot(va, va) * Dot(vb, vb))

\* SimilarityCalculator._get_element_attributes
ElementAttributes(e) ==
    {<<"type", e.type>>, <<"layer", e.layer>>, <<"color", e.color>>}
        \cup (IF e.type = "Line" THEN {<<"line_type", e.line_type>>} ELSE {})
        \cup (IF e.type = "Text" THEN {<<"font", e.font>>} ELSE {})

\* SimilarityCalculator._get_element_points
ElementPoints(e) ==
    CASE e.type = "Line" -> {e.start, e.end}
      [] e.type \in {"Circle", "Arc"} ->
            {e.center,
             Point(e.center.x + e.radius, e.center.y),
             Point(e.center.x - e.radius, e.center.y),
             Point(e.center.x, e.center.y + e.radius),
             Point(e.center.x, e.center.y - e.radius)}
      [] e.type = "Text" -> {e.position}

\* SimilarityCalculator._hausdorff_distance
HausdorffDistance(points_a, points_b) ==
    LET MinDist(p, S) == CHOOSE d \in {distance_to(p, q) : q \in S} :
                             \A q \in S : d <= distance_to(p, q)
        MaxMin(S, T) == CHOOSE d \in {MinDist(p, T) : p \in S} :
                            \A p \in S : d >= MinDist(p, T)
    IN  Max2(MaxMin(points_a, points_b), MaxMin(points_b, points_a))

\* The SimilarityResult of each method for two elements of one variant
MethodSimilarity(method, ea, eb, tol) ==
    LET center_a == GetElementCenter(ea)
        center_b == GetElementCenter(eb)
        Geometric(similarity) ==
            [overall_similarity |-> similarity,
             geometric_similarity |-> similarity,
             attribute_similarity |-> SimOne]
        attrs_a == ElementAttributes(ea)
        attrs_b == ElementAttributes(eb)
        jaccard == (SimOne * Cardinality(attrs_a \cap attrs_b))
                       \div Cardinality(attrs_a \cup attrs_b)
    IN  CASE method = "weighted" -> WeightedSimilarity(ea, eb, tol)
          [] method = "euclidean" ->
                Geometric(Falloff(distance_to(center_a, center_b), tol.max_search_radius))
          [] method = "manhattan" ->
                Geometric(Falloff(Abs(center_a.x - center_b.x) + Abs(center_a.y - center_b.y),
                                  2 * tol.max_search_radius))
          [] method = "cosine" -> Geometric(CosineSimilarity(ea, eb))
          [] method = "jaccard" ->
                [overall_similarity |-> jaccard, geometric_similarity |-> 500,
                 attribute_similarity |-> jaccard]
          [] method = "hausdorff" ->
                Geometric(Falloff(HausdorffDistance(ElementPoints(ea), ElementPoints(eb)),
                                  tol.max_search_radius))

\* TRUE iff the method divides by zero for this pair of one variant
MethodRaises(method, ea, eb, tol) ==
    \/ method = "weighted" /\ WeightedRaises(ea, eb, tol)
    \/ method \in {"euclidean", "manhattan", "hausdorff"} /\ tol.max_search_radius = 0

\* What calculate_similarity computes when the cache does not answer: the
\* zero result for two variants, otherwise the result of the method
ComputeSimilarity(method, ea, eb, tol) ==
    IF ea.type # eb.type
    THEN [overall_similarity |-> 0, geometric_similarity |-> 0,
          attribute_similarity |-> 0]
    ELSE MethodSimilarity(method, ea, eb, tol)

\* ToleranceConfig.custom(position=0, max_search_radius=0): accepted by the
\* validation
ZeroSearchRadius == [Standard EXCEPT !.position = 0, !.max_search_radius = 0]

\* The configurations a calculator is constructed with
CalculatorTolerances == {Standard, ZeroSearchRadius}

MaxAddress ==
    2

MaxAllocations ==
    3

MaxCalls ==
    2

\* The pipeline variables while a component is used on its own
PipelineUnused ==
    /\ elements_a = <<>>
    /\ elements_b = <<>>
    /\ tolerance = Standard
    /\ pc = "idle"
    /\ loop_i = 1
    /\ matches = <<>>
    /\ matched_b_ids = {}
    /\ differences = <<>>
    /\ statistics = NoValue
    /\ stage = "detect"
    /\ EngineUnused
    /\ ConfigUnused
    /\ processing_time = 0
    /\ previous_run = <<>>

\* SimilarityCalculator.__init__; every address holds a live element
InitSimilarity ==
    /\ \E tol \in CalculatorTolerances, method \in Methods :
           calculator = [tolerance |-> tol, method |-> method,
                         similarity_cache |-> <<>>]
    /\ \E objects \in [1..MaxAddress -> CalculatorElements] :
           heap = [objects |-> objects, allocations |-> MaxAddress]
    /\ call = [op |-> "none", number |-> 0]
    /\ spatial_index = <<>>
    /\ PipelineUnused

\* The caller drops its last reference to the element at an address and
\* constructs a new element, which the allocator places at that address:
\* id() of the new element is id() of the old one.  The calculator holds no
\* reference to the elements of its cache keys.
NewElement ==
    /\ heap.allocations < MaxAllocations
    /\ \E address \in 1..MaxAddress, e \in CalculatorElements :
           heap' = [objects |-> [heap.objects EXCEPT ![address] = e],
                    allocations |-> heap.allocations + 1]
    /\ UNCHANGED <<pipeline_vars, calculator, call, spatial_index>>

\* What calculate_similarity(element_a, element_b, use_cache) does for the
\* elements at the addresses a and b: a stored result is returned for the
\* key (id(element_a), id(element_b)), otherwise the result is computed
CallOutcome(a, b, use_cache) ==
    LET ea == heap.objects[a]
        eb == heap.objects[b]
        cached == use_cache /\ <<a, b>> \in DOMAIN calculator.similarity_cache
    IN  IF cached
        THEN [raised |-> FALSE, result |-> calculator.similarity_cache[<<a, b>>]]
        ELSE IF ea.type = eb.type
                /\ MethodRaises(calculator.method, ea, eb, calculator.tolerance)
        THEN [raised |-> TRUE]
        ELSE [raised |-> FALSE,
              result |-> ComputeSimilarity(calculator.method, ea, eb,
                                           calculator.tolerance)]

\* A call of calculate_similarity; the result is stored when use_cache
CalculateSimilarityCall ==
    /\ call.number < MaxCalls
    /\ \E a \in 1..MaxAddress, b \in 1..MaxAddress, use_cache \in BOOLEAN :
        LET outcome == CallOutcome(a, b, use_cache)
        IN  /\ call' = [op |-> "calculate_similarity", number |-> call.number + 1,
                        type_a |-> heap.objects[a].type, type_b |-> heap.objects[b].type,
                        cache_key |-> <<a, b>>, use_cache |-> use_cache,
                        outcome |-> outcome]
            /\ calculator' =
                   IF use_cache /\ ~outcome.raised
                   THEN [calculator EXCEPT
                             !.similarity_cache = (<<a, b>> :> outcome.result) @@ @]
                   ELSE calculator
    /\ UNCHANGED <<pipeline_vars, heap, spatial_index>>

\* SimilarityCalculator.clear_cache
ClearCache ==
    /\ calculator.similarity_cache # <<>>
    /\ calculator' = [calculator EXCEPT !.similarity_cache = <<>>]
    /\ UNCHANGED <<pipeline_vars, heap, call, spatial_index>>

NextSimilarity ==
    \/ NewElement
    \/ CalculateSimilarityCall
    \/ ClearCache

SpecSimilarity == InitSimilarity /\ [][NextSimilarity]_vars

----------------------------------------------------------------------------
(* Spatial index *)

MaxIds ==
    3

\* The elements given to the index: two circles of different boxes and a line
IndexElements == {Elem(1), Elem(3), Elem(4)}

\* The variants that are keys of the type index; a key that is missing
\* in the source is a key with the empty set here
Variants == {"Line", "Circle", "Arc", "Text"}

\* The ids a caller passes to remove and update: assigned ones and others
ElementIds == 0..MaxIds

\* SpatialIndex.__init__, and the index after clear
EmptyIndex ==
    [idx |-> {}, elements |-> <<>>, next_id |-> 0,
     type_index |-> [t \in Variants |-> {}]]

\* SpatialIndex.insert: the index after the insertion; the returned id is
\* next_id of the index before
Inserted(index, element) ==
    LET element_id == index.next_id
    IN  [idx |-> index.idx \cup {<<element_id, GetBbox(element)>>},
         elements |-> (element_id :> element) @@ index.elements,
         next_id |-> index.next_id + 1,
         type_index |-> [index.type_index EXCEPT ![element.type] = @ \cup {element_id}]]

\* SpatialIndex.insert_batch: insert for each element in turn
RECURSIVE InsertedBatch(_, _)
InsertedBatch(index, elements) ==
    IF elements = <<>> THEN index
    ELSE InsertedBatch(Inserted(index, Head(elements)), Tail(elements))

\* A removal that creates the index anew when the id is not stored
Removed_Unchecked(index, element_id) ==
    IF element_id \notin DOMAIN index.elements THEN EmptyIndex
    ELSE LET element == index.elements[element_id]
         IN  [index EXCEPT
                 !.idx = @ \ {<<element_id, GetBbox(element)>>},
                 !.elements = [k \in DOMAIN index.elements \ {element_id} |->
                                  index.elements[k]],
                 !.type_index = [@ EXCEPT ![element.type] = @ \ {element_id}]]

\* SpatialIndex.remove: the index after remove(element_id); an id that is
\* not stored leaves the index as it is
Removed(index, element_id) ==
    IF element_id \notin DOMAIN index.elements THEN index
    ELSE LET element == index.elements[element_id]
         IN  [index EXCEPT
                 !.idx = @ \ {<<element_id, GetBbox(element)>>},
                 !.elements = [k \in DOMAIN index.elements \ {element_id} |->
                                  index.elements[k]],
                 !.type_index = [@ EXCEPT ![element.type] = @ \ {element_id}]]

\* An update that keeps the id in the set of the old variant
Updated_KeepsOldType(index, element_id, new_element) ==
    IF element_id \notin DOMAIN index.elements THEN index
    ELSE LET old_element == index.elements[element_id]
         IN  [index EXCEPT
                 !.idx = (@ \ {<<element_id, GetBbox(old_element)>>})
                             \cup {<<element_id, GetBbox(new_element)>>},
                 !.elements = [@ EXCEPT ![element_id] = new_element],
                 !.type_index = [@ EXCEPT ![new_element.type] = @ \cup {element_id}]]

\* SpatialIndex.update: the index after update(element_id, new_element)
Updated(index, element_id, new_element) ==
    IF element_id \notin DOMAIN index.elements THEN index
    ELSE LET old_element == index.elements[element_id]
         IN  [index EXCEPT
                 !.idx = (@ \ {<<element_id, GetBbox(old_element)>>})
                             \cup {<<element_id, GetBbox(new_element)>>},
                 !.elements = [@ EXCEPT ![element_id] = new_element],
                 !.type_index =
                     IF old_element.type # new_element.type
                     THEN [@ EXCEPT ![old_element.type] = @ \ {element_id},
                                    ![new_element.type] = @ \cup {element_id}]
                     ELSE @]

\* list(self.elements.values()): the stored elements in the order of their
\* keys, which is the order of insertion
RECURSIVE StoredValues(_, _)
StoredValues(elements, from_id) ==
    IF from_id > MaxIds THEN <<>>
    ELSE (IF from_id \in DOMAIN elements THEN <<elements[from_id]>> ELSE <<>>)
             \o StoredValues(elements, from_id + 1)

\* SpatialIndex.optimize: clear, then insert every stored element again
Optimized(index) == InsertedBatch(EmptyIndex, StoredValues(index.elements, 0))

\* SpatialIndex.__init__
InitIndex ==
    /\ spatial_index = EmptyIndex
    /\ calculator = [tolerance |-> Standard, method |-> "weighted",
                     similarity_cache |-> <<>>]
    /\ heap = <<>>
    /\ call = [op |-> "none"]
    /\ PipelineUnused

\* index.insert(element)
InsertCall ==
    /\ spatial_index.next_id < MaxIds
    /\ \E element \in IndexElements :
        /\ spatial_index' = Inserted(spatial_index, element)
        /\ call' = [op |-> "insert", returned |-> spatial_index.next_id]
    /\ UNCHANGED <<pipeline_vars, calculator, heap>>

\* index.insert_batch(elements)
InsertBatchCall ==
    /\ \E elements \in SeqsUpTo(IndexElements, MaxIds - spatial_index.next_id) :
        /\ spatial_index' = InsertedBatch(spatial_index, elements)
        /\ call' = [op |-> "insert_batch",
                    returned |-> [k \in 1..Len(elements) |->
                                     spatial_index.next_id + k - 1]]
    /\ UNCHANGED <<pipeline_vars, calculator, heap>>

\* index.remove(element_id): False iff the id is not stored
RemoveCall ==
    /\ \E element_id \in ElementIds :
        /\ spatial_index' = Removed(spatial_index, element_id)
        /\ call' = [op |-> "remove", element_id |-> element_id,
                    known |-> element_id \in DOMAIN spatial_index.elements,
                    returned |-> element_id \in DOMAIN spatial_index.elements,
                    changed |-> spatial_index' # spatial_index]
    /\ UNCHANGED <<pipeline_vars, calculator, heap>>

\* index.update(element_id, new_element): False iff the id is not stored
UpdateCall ==
    /\ \E element_id \in ElementIds, new_element \in IndexElements :
        /\ spatial_index' = Updated(spatial_index, element_id, new_element)
        /\ call' = [op |-> "update", element_id |-> element_id,
                    known |-> element_id \in DOMAIN spatial_index.elements,
                    returned |-> element_id \in DOMAIN spatial_index.elements,
                    changed |-> spatial_index' # spatial_index]
    /\ UNCHANGED <<pipeline_vars, calculator, heap>>

\* index.clear()
ClearCall ==
    /\ spatial_index' = EmptyIndex
    /\ call' = [op |-> "clear"]
    /\ UNCHANGED <<pipeline_vars, calculator, heap>>

\* index.optimize()
OptimizeCall ==
    /\ spatial_index' = Optimized(spatial_index)
    /\ call' = [op |-> "optimize"]
    /\ UNCHANGED <<pipeline_vars, calculator, heap>>

NextIndex ==
    \/ InsertCall
    \/ InsertBatchCall
    \/ RemoveCall
    \/ UpdateCall
    \/ ClearCall
    \/ OptimizeCall

SpecIndex == InitIndex /\ [][NextIndex]_vars

----------------------------------------------------------------------------
(* CoordinateNormalizer (geometry/normalizer.py).  The coordinates are   *)
(* floats.  A float is modelled as an integer with MantissaBits           *)
(* significant bits: every sum, difference and product is rounded to the  *)
(* nearest such number, ties to the even mantissa, as IEEE 754 does with  *)
(* 53 bits.  A field that holds no number (None) is <<>>, a number v is   *)
(* <<v>>.  The attributes layer, color, line_type, fill, content, font,   *)
(* bold, italic and rotation are copied by every step and are left out.   *)

MantissaBits ==
    4

MaxElements ==
    2

\* The float nearest to num / den (den > 0)
Fl(num, den) ==
    LET RECURSIVE Ulp(_)
        Ulp(q) == IF q < 2 ^ MantissaBits THEN 1 ELSE 2 * Ulp(q \div 2)
        Nearest(n) ==
            LET u == Ulp(n \div den)
                lower == (n \div (den * u)) * u
                twice == 2 * (n - lower * den)
            IN  IF twice < u * den THEN lower
                ELSE IF twice > u * den THEN lower + u
                ELSE IF (lower \div u) % 2 = 0 THEN lower ELSE lower + u
    IN  IF num < 0 THEN 0 - Nearest(0 - num) ELSE Nearest(num)

Known(v) == v # <<>>

\* str(element) of the log lines: the format specs {:.3f} raise for None
ElementStrRaises(element) ==
    LET PointKnown(p) == Known(p.x) /\ Known(p.y)
    IN  CASE element.type = "Line" ->
                ~(PointKnown(element.start) /\ PointKnown(element.end))
          [] element.type = "Circle" ->
                ~(PointKnown(element.center) /\ Known(element.radius))
          [] element.type = "Arc" ->
                ~(/\ PointKnown(element.center) /\ Known(element.radius)
                  /\ Known(element.start_angle) /\ Known(element.end_angle))
          [] element.type = "Text" ->
                ~(PointKnown(element.position) /\ Known(element.height))

\* The body of the try of _convert_coordinate_system for one element:
\* <<the new element>>, or <<>> when it raises
FlippedElement(element, page_height) ==
    LET Flip(p) == [x |-> p.x, y |-> <<Fl(page_height - p.y[1], 1)>>]
    IN  CASE element.type = "Line" ->
                IF Known(element.start.y) /\ Known(element.end.y)
                THEN <<[element EXCEPT !.start = Flip(@), !.end = Flip(@)]>>
                ELSE <<>>
          [] element.type = "Circle" ->
                IF Known(element.center.y)
                THEN <<[element EXCEPT !.center = Flip(@)]>>
                ELSE <<>>
          [] element.type = "Arc" ->
                IF /\ Known(element.center.y)
                   /\ Known(element.start_angle) /\ Known(element.end_angle)
                THEN <<[element EXCEPT !.center = Flip(@),
                                       !.start_angle = <<0 - @[1]>>,
                                       !.end_angle = <<0 - @[1]>>]>>
                ELSE <<>>
          [] element.type = "Text" ->
                IF Known(element.position.y)
                THEN <<[element EXCEPT !.position = Flip(@)]>>
                ELSE <<>>

\* The body of the try of _convert_units for one element; point_to_mm is
\* 25.4 / 72 = 127 / 360
ConvertedElement(element) ==
    LET PointKnown(p) == Known(p.x) /\ Known(p.y)
        ToMm(v) == <<Fl(v[1] * 127, 360)>>
        Convert(p) == [x |-> ToMm(p.x), y |-> ToMm(p.y)]
    IN  CASE element.type = "Line" ->
                IF /\ PointKnown(element.start) /\ PointKnown(element.end)
                   /\ Known(element.thickness)
                THEN <<[element EXCEPT !.start = Convert(@), !.end = Convert(@),
                                       !.thickness = ToMm(@)]>>
                ELSE <<>>
          [] element.type \in {"Circle", "Arc"} ->
                IF PointKnown(element.center) /\ Known(element.radius)
                THEN <<[element EXCEPT !.center = Convert(@), !.radius = ToMm(@)]>>
                ELSE <<>>
          [] element.type = "Text" ->
                IF PointKnown(element.position) /\ Known(element.height)
                THEN <<[element EXCEPT !.position = Convert(@), !.height = ToMm(@)]>>
                ELSE <<>>

\* The loop `for element in elements: try: ... except Exception as e:
\* print(f"...{e}, 元素: {element}"); out.append(element)` of a step: the
\* print is outside any try, so the step raises when str(element) does
PerElement(elements, Transformed(_)) ==
    LET transformed == [k \in 1..Len(elements) |-> Transformed(elements[k])]
    IN  [raised |-> \E k \in 1..Len(elements) :
                        transformed[k] = <<>> /\ ElementStrRaises(elements[k]),
         elements |-> [k \in 1..Len(elements) |->
                          IF transformed[k] = <<>> THEN elements[k] ELSE transformed[k][1]]]

\* What the first loop of _align_coordinates takes the minimum of; an
\* element with a coordinate or radius of None raises there, and so does
\* the print of its except clause
Extents(element) ==
    CASE element.type = "Line" ->
            [known |-> /\ Known(element.start.x) /\ Known(element.end.x)
                       /\ Known(element.start.y) /\ Known(element.end.y),
             x |-> {element.start.x[1], element.end.x[1]},
             y |-> {element.start.y[1], element.end.y[1]}]
      [] element.type \in {"Circle", "Arc"} ->
            [known |-> /\ Known(element.center.x) /\ Known(element.center.y)
                       /\ Known(element.radius),
             x |-> {Fl(element.center.x[1] - element.radius[1], 1)},
             y |-> {Fl(element.center.y[1] - element.radius[1], 1)}]
      [] element.type = "Text" ->
            [known |-> Known(element.position.x) /\ Known(element.position.y),
             x |-> {element.position.x[1]},
             y |-> {element.position.y[1]}]

\* (min_x, min_y) over the extents of a non-empty list of elements
MinExtents(elements) ==
    LET xs == UNION {Extents(elements[k]).x : k \in 1..Len(elements)}
        ys == UNION {Extents(elements[k]).y : k \in 1..Len(elements)}
    IN  [x |-> CHOOSE v \in xs : \A w \in xs : v <= w,
         y |-> CHOOSE v \in ys : \A w \in ys : v <= w]

\* CoordinateNormalizer._align_coordinates
Aligned(elements) ==
    IF elements = <<>> THEN [raised |-> FALSE, elements |-> elements]
    ELSE IF \E k \in 1..Len(elements) : ~Extents(elements[k]).known
    THEN [raised |-> TRUE, elements |-> <<>>]
    ELSE LET min == MinExtents(elements)
             Shift(p) == [x |-> <<Fl(p.x[1] - min.x, 1)>>,
                          y |-> <<Fl(p.y[1] - min.y, 1)>>]
             Moved(element) ==
                 CASE element.type = "Line" ->
                         [element EXCEPT !.start = Shift(@), !.end = Shift(@)]
                   [] element.type \in {"Circle", "Arc"} ->
                         [element EXCEPT !.center = Shift(@)]
                   [] element.type = "Text" ->
                         [element EXCEPT !.position = Shift(@)]
         IN  [raised |-> FALSE,
              elements |-> [k \in 1..Len(elements) |-> Moved(elements[k])]]

\* CoordinateNormalizer.normalize; page_info is <<>> (None) or <<the height
\* of page_info['bbox']>>
Normalized(elements, page_info) ==
    IF elements = <<>> THEN [raised |-> FALSE, elements |-> elements]
    ELSE LET Flipped(element) == FlippedElement(element, page_info[1])
             flipped == IF page_info = <<>>
                        THEN [raised |-> FALSE, elements |-> elements]
                        ELSE PerElement(elements, Flipped)
             converted == PerElement(flipped.elements, ConvertedElement)
         IN  IF flipped.raised \/ converted.raised
             THEN [raised |-> TRUE, elements |-> <<>>]
             ELSE Aligned(converted.elements)

\* Elements as the parser builds them
WellFormedElements ==
    LET P(x, y) == [x |-> <<x>>, y |-> <<y>>]
    IN  {[type |-> "Line", start |-> P(4, 8), end |-> P(12, 2), thickness |-> <<1>>],
         [type |-> "Circle", center |-> P(6, 6), radius |-> <<2>>],
         [type |-> "Circle", center |-> P(18, 18), radius |-> <<1>>],
         [type |-> "Arc", center |-> P(10, 7), radius |-> <<3>>,
          start_angle |-> <<0>>, end_angle |-> <<1>>],
         [type |-> "Text", position |-> P(3, 5), height |-> <<2>>]}

\* ... and elements with a field of None: the dataclasses validate nothing
NormalizerElements ==
    LET P(x, y) == [x |-> <<x>>, y |-> <<y>>]
    IN  WellFormedElements \cup
        {[type |-> "Line", start |-> P(4, 8), end |-> P(12, 2), thickness |-> <<>>],
         [type |-> "Arc", center |-> P(6, 6), radius |-> <<>>,
          start_angle |-> <<0>>, end_angle |-> <<1>>]}

PageInfos == {<<>>, <<24>>}

InitNormalizer ==
    /\ call = [op |-> "none"]
    /\ calculator = [tolerance |-> Standard, method |-> "weighted",
                     similarity_cache |-> <<>>]
    /\ heap = <<>>
    /\ spatial_index = <<>>
    /\ PipelineUnused

\* normalizer.normalize(elements, page_info)
NormalizeCall ==
    /\ \E elements \in SeqsUpTo(NormalizerElements, MaxElements),
          page_info \in PageInfos :
        call' = [op |-> "normalize", elements |-> elements,
                 page_info |-> page_info,
                 outcome |-> Normalized(elements, page_info)]
    /\ UNCHANGED <<pipeline_vars, calculator, heap, spatial_index>>

\* normalizer._align_coordinates(elements), the origin-alignment step
AlignCall ==
    /\ \E elements \in SeqsUpTo(WellFormedElements, MaxElements) :
        call' = [op |-> "_align_coordinates", elements |-> elements,
                 outcome |-> Aligned(elements)]
    /\ UNCHANGED <<pipeline_vars, calculator, heap, spatial_index>>

NextNormalizer ==
    \/ NormalizeCall
    \/ AlignCall

SpecNormalizer == InitNormalizer /\ [][NextNormalizer]_vars

----------------------------------------------------------------------------
(* Properties of detect_differences and match_elements *)

\* Number of positions of list L that hold the object o
CountPositions(L, o) == Cardinality({j \in 1..Len(L) : L[j] = o})

\* Number of details of the given diff types with o as element_a / element_b
CountDetailsA(ds, o, types) ==
    Cardinality({k \in 1..Len(ds) : ds[k].element_a = o /\ ds[k].diff_type \in types})

CountDetailsB(ds, o, types) ==
    Cardinality({k \in 1..Len(ds) : ds[k].element_b = o /\ ds[k].diff_type \in types})

\* Number of matches with o as element_a / element_b
CountMatchesA(ms, o) == Cardinality({k \in 1..Len(ms) : ms[k].element_a = o})

CountMatchesB(ms, o) == Cardinality({k \in 1..Len(ms) : ms[k].element_b = o})

\* C1: the differences hold every position of A exactly once as element_a
\* (Deleted, Modified or Unchanged) and every position of B exactly once as
\* element_b (Added, Modified or Unchanged), also when a list holds the same
\* object or value-equal elements more than once.
C1_DiffCompleteness ==
    pc = "done" =>
        \A o \in Pool :
            /\ CountDetailsA(differences, o, {"deleted", "modified", "unchanged"})
                   = CountPositions(elements_a, o)
            /\ CountDetailsB(differences, o, {"added", "modified", "unchanged"})
                   = CountPositions(elements_b, o)

\* C2: 0 <= change_rate <= 1, that is added + deleted + modified never
\* exceeds max(|A|, |B|), and change_rate is 0 when both lists are empty.
C2_ChangeRateBounds ==
    pc = "done" =>
        /\ statistics.change_rate >= 0
        /\ statistics.change_rate <= SimOne
        /\ statistics.added_count + statistics.deleted_count + statistics.modified_count
               <= Max2(Len(elements_a), Len(elements_b))
        /\ (elements_a = <<>> /\ elements_b = <<>>) => statistics.change_rate = 0

\* C3: the matches are one-to-one by position: no position of A and no
\* position of B is in two matches, and every committed match has consumed
\* its own index of B.
C3_MatchesOneToOne ==
    /\ \A o \in Pool :
        /\ CountMatchesA(matches, o) <= CountPositions(elements_a, o)
        /\ CountMatchesB(matches, o) <= CountPositions(elements_b, o)
    /\ Cardinality(matched_b_ids) = Len(matches)

\* C4: every match pairs two elements of the same variant and has a
\* similarity of at least tolerance.similarity_threshold.
C4_MatchesSameVariantAboveThreshold ==
    \A k \in 1..Len(matches) :
        /\ Elem(matches[k].element_a).type = Elem(matches[k].element_b).type
        /\ matches[k].similarity >= tolerance.similarity_threshold

\* A match was committed although B also holds an element of another variant
C4_Witness ==
    /\ pc = "done"
    /\ \E k \in 1..Len(matches) : \E j \in 1..Len(elements_b) :
           Elem(elements_b[j]).type # Elem(matches[k].element_a).type

\* A and B are element-wise identical: same length, equal values
ElementWiseIdentical(A, B) ==
    /\ Len(A) = Len(B)
    /\ \A j \in 1..Len(A) : Elem(A[j]) = Elem(B[j])

\* C5: for element-wise identical A and B, under any preset, the
\* differences are one Unchanged detail per element, total_differences is 0
\* and change_rate is 0.
C5_IdenticalListsUnchanged ==
    (pc = "done" /\ tolerance \in Presets /\ ElementWiseIdentical(elements_a, elements_b)) =>
        /\ Len(differences) = Len(elements_a)
        /\ \A k \in 1..Len(differences) : differences[k].diff_type = "unchanged"
        /\ statistics.total_differences = 0
        /\ statistics.change_rate = 0

\* C6: the detail of a match is Unchanged, with no modification types, iff
\* the similarity of the match is at least 0.999, and Modified otherwise.
C6_UnchangedIffSimilar ==
    pc = "done" =>
        /\ Len(differences) >= Len(matches)
        /\ \A k \in 1..Len(matches) :
            /\ differences[k].element_a = matches[k].element_a
            /\ differences[k].element_b = matches[k].element_b
            /\ differences[k].similarity = matches[k].similarity
            /\ IF matches[k].similarity >= 999
               THEN /\ differences[k].diff_type = "unchanged"
                    /\ differences[k].modification_types = <<>>
               ELSE differences[k].diff_type = "modified"

\* A Modified detail with an empty list of modification types
C6_Witness ==
    /\ pc = "done"
    /\ \E k \in 1..Len(matches) :
        /\ differences[k].diff_type = "modified"
        /\ differences[k].modification_types = <<>>

\* C7: Deleted has element_a and no element_b, Added has element_b and no
\* element_a, Modified and Unchanged have both; every A element in no match
\* is Deleted and every B element in no match is Added; with B empty and A
\* not, every A element is Deleted and change_rate is 1.0.
C7_DetailShapes ==
    pc = "done" =>
        /\ \A k \in 1..Len(differences) :
            LET d == differences[k]
            IN  CASE d.diff_type = "deleted" ->
                        d.element_a \in Pool /\ d.element_b = NoElement
                  [] d.diff_type = "added" ->
                        d.element_a = NoElement /\ d.element_b \in Pool
                  [] d.diff_type \in {"modified", "unchanged"} ->
                        d.element_a \in Pool /\ d.element_b \in Pool
                  [] OTHER -> FALSE
        /\ \A o \in Pool :
            /\ CountMatchesA(matches, o) = 0 =>
                   CountDetailsA(differences, o, {"deleted"}) = CountPositions(elements_a, o)
            /\ CountMatchesB(matches, o) = 0 =>
                   CountDetailsB(differences, o, {"added"}) = CountPositions(elements_b, o)
        /\ (elements_b = <<>> /\ elements_a # <<>>) =>
            /\ Len(differences) = Len(elements_a)
            /\ \A k \in 1..Len(differences) :
                /\ differences[k].diff_type = "deleted"
                /\ differences[k].element_a = elements_a[k]
            /\ statistics.change_rate = SimOne

\* One run reports a matched pair, a Deleted and an Added element
C7_Witness ==
    /\ pc = "done"
    /\ \E k \in 1..Len(differences) :
        /\ differences[k].diff_type = "deleted"
        /\ CountMatchesA(matches, differences[k].element_a) = 0
    /\ \E k \in 1..Len(differences) :
        /\ differences[k].diff_type = "added"
        /\ CountMatchesB(matches, differences[k].element_b) = 0
    /\ \E k \in 1..Len(differences) : differences[k].diff_type \in {"modified", "unchanged"}

----------------------------------------------------------------------------
(* Properties of the comparison engine *)

\* Some similarity computation of match_elements divides by zero: an
\* element of A has a nearby element of B of its type for which it does
StageRaises(A, B, tol) ==
    \E i \in 1..Len(A) :
        \E j \in QueryNearby(B, A[i], tol.max_search_radius) :
            SimilarityRaises(Elem(A[i]), Elem(B[j]), tol)

\* What a comparison of the pair on a new engine ends with: the message of
\* the stage that fails, NoValue when none does
ExpectedError(pair) ==
    IF ~Parseable(pair[1]) \/ ~Parseable(pair[2]) THEN ParseErrorMessage
    ELSE IF StageRaises(PreprocessElements(FileElements(pair[1])),
                        PreprocessElements(ParsedElementsB(pair[1], pair[2],
                                                           enable_caching)),
                        tolerance)
    THEN ZeroDivisionMessage
    ELSE NoValue

AllZero(stats) == \A f \in DOMAIN stats : stats[f] = 0

\* C8: compare_files never raises when a file cannot be parsed or a later
\* stage fails; it returns a result with success False, a non-empty error
\* message, no differences and all-zero statistics, and the failure is not
\* stored in the comparison cache.
C8_FailureIsAResult ==
    api \in {"compare_files", "batch_compare"} =>
        /\ epc # "aborted"
        /\ \A k \in 1..Len(results) :
            /\ ExpectedError(file_pairs[k]) # NoValue => ~results[k].success
            /\ ~results[k].success =>
                /\ results[k].error_message \notin {"", NoValue}
                /\ results[k].differences = <<>>
                /\ results[k].elements_a_count = 0
                /\ results[k].elements_b_count = 0
                /\ AllZero(results[k].matching_statistics)
                /\ AllZero(results[k].difference_statistics)
                /\ CacheKey(file_pairs[k][1], file_pairs[k][2])
                       \notin DOMAIN comparison_cache
        /\ \A key \in DOMAIN comparison_cache : comparison_cache[key].success
        /\ failed_comparisons =
               Cardinality({k \in 1..Len(results) : ~results[k].success})

\* A caching engine has returned a failure of the parser and a failure of
\* a later stage
C8_Witness ==
    /\ epc = "returned"
    /\ enable_caching
    /\ api # "service_batch"
    /\ \E k \in 1..Len(results) : results[k].error_message = ParseErrorMessage
    /\ \E k \in 1..Len(results) : results[k].error_message = ZeroDivisionMessage

C21_MatchTypeBands ==
    /\ \A k \in 1..Len(matches) :
          /\ matches[k].match_type = "exact" <=> matches[k].similarity >= 950
          /\ matches[k].match_type = "similar" <=>
                 (800 <= matches[k].similarity /\ matches[k].similarity < 950)
          /\ matches[k].match_type = "partial" <=> matches[k].similarity < 800
    /\ (pc = "matching" /\ loop_i > Len(elements_a)) =>
          LET stats == MatcherStatistics(elements_a, elements_b, matches)
          IN  stats.exact_matches + stats.similar_matches + stats.partial_matches
                  = stats.matched_pairs

\* match_elements has returned a similar and a partial match
C21_Witness ==
    /\ pc = "matching"
    /\ loop_i > Len(elements_a)
    /\ \E k \in 1..Len(matches) :
          matches[k].match_type = "similar" /\ matches[k].similarity < 900
    /\ \E k \in 1..Len(matches) : matches[k].match_type = "partial"

\* C22: for A = [Text "ABC"] and B = [Text "ABD"] at the same position and
\* of the same height detect_differences returns one detail, Modified,
\* with Shape among its modification types, no attribute change and a
\* content_length_change of 0.
C22_TextContentScenario ==
    (pc = "done" /\ elements_a = <<8>> /\ elements_b = <<9>>) =>
        /\ Len(differences) = 1
        /\ differences[1].diff_type = "modified"
        /\ \E k \in 1..Len(differences[1].modification_types) :
               differences[1].modification_types[k] = "shape"
        /\ differences[1].attribute_changes = {}
        /\ differences[1].geometric_changes.content_length_change = 0

\* C23: for A = [Circle((5,5), r=3)] and B = [Circle((5.02,4.98), r=3.01)]
\* under the standard preset detect_differences returns one detail:
\* Modified with no modification type.
C23_CircleScenario ==
    (pc = "done" /\ elements_a = <<1>> /\ elements_b = <<3>> /\ tolerance = Standard) =>
        /\ Len(differences) = 1
        /\ differences[1].diff_type = "modified"
        /\ differences[1].modification_types = <<>>

\* C24: an iteration of match_elements for the element a takes as
\* candidates the unconsumed elements of B of the variant of a whose box
\* meets the box of a grown by max_search_radius, cut down to the
\* max_candidates_per_element nearest when there are more.  a is matched
\* iff the largest similarity over the candidates is at least
\* similarity_threshold, then to a candidate of that similarity, which is
\* consumed.
C24_GreedyStep ==
    [][MatchStep =>
        LET a == elements_a[loop_i]
            near == {k \in QueryNearby(elements_b, a, tolerance.max_search_radius) :
                        /\ TypeOf(elements_b[k]) = TypeOf(a)
                        /\ k \notin matched_b_ids}
            Dist(k) == distance_to(GetElementCenter(Elem(a)),
                                   GetElementCenter(Elem(elements_b[k])))
            Sim(k) == CalculateSimilarity(Elem(a), Elem(elements_b[k]), tolerance)
            truncations ==
                IF Cardinality(near) > tolerance.max_candidates_per_element
                THEN {T \in SUBSET near :
                        /\ Cardinality(T) = tolerance.max_candidates_per_element
                        /\ \A t \in T, u \in near \ T : Dist(t) <= Dist(u)}
                ELSE {near}
        IN  \E C \in truncations :
                IF \E k \in C : Sim(k) >= tolerance.similarity_threshold
                THEN \E k \in C :
                        /\ \A j \in C : Sim(k) >= Sim(j)
                        /\ Len(matches') = Len(matches) + 1
                        /\ matches'[Len(matches')].element_a = a
                        /\ matches'[Len(matches')].element_b = elements_b[k]
                        /\ matches'[Len(matches')].similarity = Sim(k)
                        /\ matched_b_ids' = matched_b_ids \cup {k}
                ELSE matches' = matches /\ matched_b_ids' = matched_b_ids]_vars

\* C25: a detail of type Unchanged has no attribute changes: a matched
\* pair that differs in layer, color, line_type or font is not Unchanged.
C25_UnchangedHasNoAttributeChange ==
    \A k \in 1..Len(differences) :
        differences[k].diff_type = "unchanged" => differences[k].attribute_changes = {}

\* C26: with a configuration accepted by _validate_parameters
\* match_elements and detect_differences return: no step raises.
C26_ValidConfigNeverRaises ==
    ValidateParameters(tolerance) => pc # "raised"

\* C28: the similarity of the matcher does not depend on the order of its
\* arguments: for the element in turn and every element of B of its
\* variant both orders give the same number.
C28_MatcherSimilaritySymmetric ==
    (pc = "matching" /\ loop_i <= Len(elements_a)) =>
        \A k \in 1..Len(elements_b) :
            LET ea == Elem(elements_a[loop_i])
                eb == Elem(elements_b[k])
            IN  (/\ ea.type = eb.type
                 /\ ~SimilarityRaises(ea, eb, tolerance)
                 /\ ~SimilarityRaises(eb, ea, tolerance))
                    => CalculateSimilarity(ea, eb, tolerance)
                           = CalculateSimilarity(eb, ea, tolerance)

\* C27: every result of batch_compare carries the comparison id that was
\* generated for its position in the batch, and what is saved is saved
\* under that id.
C27_ResultCarriesItsId ==
    api = "batch_compare" =>
        /\ \A k \in 1..Len(results) : results[k].comparison_id = <<"batch", k - 1>>
        /\ output_dir => \A k \in 1..Len(saved) : saved[k] = <<"batch", k - 1>>

----------------------------------------------------------------------------
(* Properties of the tolerance configuration *)

\* C10: every ToleranceConfig that was constructed has all numeric
\* tolerance fields non-negative, all ratios and thresholds in [0, 1] and
\* max_search_radius >= position; a violating value is rejected.
C10_ConstructedConfigsValid ==
    config_status = "constructed" =>
        /\ \A f \in LengthFields \cup AngleFields \cup {"max_candidates_per_element"} :
               config[f] >= 0
        /\ \A f \in RatioFields : 0 <= config[f] /\ config[f] <= 1000
        /\ config.max_search_radius >= config.position

\* C20: c.scale(f) for a valid configuration c and a factor f > 0 returns a
\* configuration whose position, text_position, radius_tolerance and
\* max_search_radius are those of c times f and whose other fields are
\* those of c.
C20_ScaleKeepsOtherFields ==
    [][(/\ ScaleConfig
        /\ config_status' = "constructed"
        /\ \A f \in LengthFields \cup AngleFields \cup {"max_candidates_per_element"} :
               config[f] >= 0
        /\ \A f \in RatioFields : 0 <= config[f] /\ config[f] <= 1000
        /\ config.max_search_radius >= config.position)
       => \E factor \in ScaleFactors :
              /\ factor > 0
              /\ config' = [config EXCEPT
                     !.position = (@ * factor) \div 1000,
                     !.text_position = (@ * factor) \div 1000,
                     !.radius_tolerance = (@ * factor) \div 1000,
                     !.max_search_radius = (@ * factor) \div 1000]]_vars

----------------------------------------------------------------------------
(* Properties of the similarity calculator *)

\* C11: calculate_similarity returns overall_similarity 0.0 whenever the
\* two elements are of different variants, for every method and tolerance,
\* with or without caching.
C11_TypeMismatchZero ==
    (call.op = "calculate_similarity"
     /\ call.type_a # call.type_b) =>
        /\ ~call.outcome.raised
        /\ call.outcome.result.overall_similarity = 0

\* C12: calculate_similarity(e, e) returns overall_similarity 1.0 for every
\* element e, degenerate ones included, every valid tolerance and every
\* method.
C12_IdentityIsOne ==
    (call.op = "calculate_similarity"
     /\ call.cache_key[1] = call.cache_key[2]) =>
        /\ ~call.outcome.raised
        /\ call.outcome.result.overall_similarity = SimOne

\* C13: under the weighted method calculate_similarity(a, b) and
\* calculate_similarity(b, a) agree on the overall, geometric and attribute
\* similarity for every two elements of one variant and every tolerance.
C13_WeightedSymmetric ==
    (calculator.method = "weighted" /\ call.op = "calculate_similarity") =>
        \A a \in 1..MaxAddress, b \in 1..MaxAddress, use_cache \in BOOLEAN :
            heap.objects[a].type = heap.objects[b].type =>
                CallOutcome(a, b, use_cache) = CallOutcome(b, a, use_cache)

\* C14: the similarity stored in each MatchResult, which is also the one
\* compared with the threshold, is the overall similarity that the
\* SimilarityCalculator computes for the pair under the same tolerance and
\* the configured (default: weighted) method.
C14_MatcherUsesCalculator ==
    \A k \in 1..Len(matches) :
        matches[k].similarity =
            ComputeSimilarity("weighted", Elem(matches[k].element_a),
                              Elem(matches[k].element_b),
                              tolerance).overall_similarity

----------------------------------------------------------------------------
(* Properties of repeated runs *)

\* C15: detect_differences is deterministic: a second run on the same
\* lists under the same tolerance returns the same difference list, in the
\* same order, and the same statistics, whatever the order in which the
\* spatial index returns the candidates and whatever the wall clock says.
C15_Deterministic ==
    (pc = "done" /\ previous_run # <<>>) =>
        /\ differences = previous_run[1].differences
        /\ statistics = previous_run[1].statistics
        /\ processing_time = previous_run[1].processing_time

----------------------------------------------------------------------------
(* Properties of the spatial index *)

\* C16: remove(id) and update(id, e) with an id that is not stored return
\* False, raise nothing and leave the element store, the tree and the type
\* index as they were.
C16_UnknownIdIsFalse ==
    (call.op \in {"remove", "update"} /\ ~call.known) =>
        /\ call.returned = FALSE
        /\ ~call.changed

\* An unknown id was passed to an index that holds elements
C16_Witness ==
    /\ call.op \in {"remove", "update"}
    /\ ~call.known
    /\ DOMAIN spatial_index.elements # {}

C30_CacheIsTransparent ==
    \A a \in 1..MaxAddress, b \in 1..MaxAddress :
        CallOutcome(a, b, TRUE) = CallOutcome(a, b, FALSE)

\* C29: an id keeps denoting its element until remove(id), update(id, ...)
\* or clear(): insert, insert_batch and optimize leave every stored id with
\* its element, remove and update do so for every other id.
C29_IdsAreStable ==
    [][(InsertCall \/ InsertBatchCall \/ OptimizeCall \/ RemoveCall \/ UpdateCall) =>
        \A id \in DOMAIN spatial_index.elements :
            (call'.op \in {"remove", "update"} => id # call'.element_id) =>
                /\ id \in DOMAIN spatial_index'.elements
                /\ spatial_index'.elements[id] = spatial_index.elements[id]]_vars

----------------------------------------------------------------------------
(* Properties of the coordinate normalizer *)

\* C18: normalize never aborts a batch: it returns a list of the length of
\* its input, and an element whose transform raises in one of the steps is
\* returned at its position equal to the input element.
C18_NeverAbortsPassesThrough ==
    call.op = "normalize" =>
        /\ ~call.outcome.raised
        /\ Len(call.outcome.elements) = Len(call.elements)
        /\ \A k \in 1..Len(call.elements) :
              (\/ ConvertedElement(call.elements[k]) = <<>>
               \/ /\ call.page_info # <<>>
                  /\ FlippedElement(call.elements[k], call.page_info[1]) = <<>>)
                  => call.outcome.elements[k] = call.elements[k]

\* C19: after the alignment of a non-empty list of well-formed elements
\* the minimum x and the minimum y over the extents are exactly 0, and
\* aligning the result again returns it unchanged.
C19_AlignedMinIsZero ==
    (call.op = "_align_coordinates" /\ call.elements # <<>>) =>
        /\ ~call.outcome.raised
        /\ MinExtents(call.outcome.elements) = [x |-> 0, y |-> 0]
        /\ Aligned(call.outcome.elements) = call.outcome

====
